---- MODULE Spec2Model ----
(***************************************************************************)
(* Model of the enose-control core: the coarse peripheral state machine    *)
(* (SystemState, "L0"), the fine-grained HardwareStateMachine ("L1") that  *)
(* observes it, the two RAII transaction guards, the primitive executors   *)
(* and the experiment orchestrator (ExperimentServiceImpl).                *)
(*                                                                         *)
(* The specifications share the variables:                                 *)
(*   SpecSM    the L0/L1 machines driven through their public methods,     *)
(*             one call at a time;                                         *)
(*   SpecGuard the transaction guards around such calls;                   *)
(*   SpecObs   concurrent direct callers of SystemState::transition_to,    *)
(*             with the write of L0 and the L1 observer as separate steps; *)
(*   SpecExec  one primitive at a time, run from any L0 mode;              *)
(*   Spec      the orchestrator: the RPC handlers and the executor thread; *)
(*   SpecLive  Spec with weak fairness of the executor thread;             *)
(*   SpecTime  SpecExec with the passing of time in 100 ms ticks;          *)
(*   SpecPeriph the commands SystemState sends to the actuator;            *)
(*   SpecRace  two threads inside SystemState::transition_to;              *)
(*   SpecValidate  ExperimentValidator::validate on small programs;        *)
(*   SpecEmpty     LoadCellDriver::wait_for_empty_bottle, turn by turn;    *)
(*   SpecLoadCell  the drain detector and the calibration wizard;          *)
(*   SpecInject    the pump volumes and consumption records of an inject;  *)
(*   SpecEvents    the RPC handlers with the event subscriptions;          *)
(*   SpecActuator  the send queue of ActuatorDriver;                       *)
(*   SpecFirmware  the messages ActuatorDriver::on_read handles;           *)
(*   SpecEstop     Spec with the EmergencyStop and FirmwareRestart RPCs;   *)
(*   SpecValidatorRace  two ValidateProgram calls on the one validator;    *)
(*   SpecProgress  the step counters of a program with a loop;             *)
(*   SpecTest      TestController: start_test, stop_test, the test thread. *)
(* All start from the state after construction of ExperimentServiceImpl.   *)
(***************************************************************************)
EXTENDS Integers, Sequences, FiniteSets, TLC

VARIABLES
    l0,         \* SystemState::current_state_
    l1,         \* HardwareStateMachine::current_state_
    l1_mutex,   \* HardwareStateMachine::mutex_: "free", or "stuck" once its owner waits on it forever
    last,       \* the most recent call on the machines or guards: arguments, state before, outcome
    s6,         \* progress of the scenario "direct start_drain(), then request_transition(IDLE)"
    g0,         \* the StateTransactionGuard in scope, if any
    g1,         \* the HardwareTransactionGuard in scope, if any
    calls,      \* per concurrent caller of SystemState::transition_to: "idle", or the
                \* new_state it has written and is about to pass to state_callback_
    state_,             \* ExperimentServiceImpl::state_
    loaded_program_,    \* ExperimentServiceImpl::loaded_program_: [id, steps], id 0 = null
    loads,              \* number of program objects created so far
    stop_requested_,    \* ExperimentServiceImpl::stop_requested_
    pause_requested_,   \* ExperimentServiceImpl::pause_requested_
    execution_thread_,  \* ExperimentServiceImpl::execution_thread_: 0 = null, else the thread it owns
    mutex_,             \* ExperimentServiceImpl::mutex_: "free", or "start" while StartExperiment holds it
    crashed,            \* the process has been terminated (std::terminate, fault)
    thr,                \* the executor threads and the primitive each one is inside
    lastprim,           \* the primitive that has just returned: entry and exit L0 modes
    current_peripheral_state_,  \* SystemState::current_peripheral_state_
    sent,       \* the G-code the most recent SystemState call sent to the actuator,
                \* with the peripheral vector before and after its transition_to
    tcall,      \* per thread inside SystemState::transition_to: how far it has got
    validation, \* the most recent ExperimentValidator::validate: its program and result
    ew,         \* LoadCellDriver::dynamic_empty_weight_ and the wait_for_empty_bottle in progress
    lc,         \* LoadCellDriver: calibration_step_ and the drain-complete detector
    sq,         \* ActuatorDriver: send_queue_, the write in flight, what the transport wrote
    inj,        \* the most recent inject primitive: distances per pump, consumable records
    sub,        \* ExperimentServiceImpl: event_queue_, subscriber_count_, the subscriptions
    fw,         \* ActuatorDriver::firmware_ready_ and the messages on_read has handled
    vr,         \* ExperimentServiceImpl::validator_ shared by the validations in progress
    pg,         \* the executor's walk through loops: current_step_index_, loop_iteration_, the last status snapshot
    tc,         \* TestController: state_, mutex_, stop_requested_, the test thread, the calls in progress
    es          \* ControlServiceImpl::EmergencyStop has returned and no recovery was asked for since

(* The actuator side of SystemState. It is followed in SpecPeriph and        *)
(* SpecRace; the other specifications look at the modes only.                *)
avars == <<current_peripheral_state_, sent, tcall>>

smvars == <<l1_mutex, last, s6, g0, g1, calls, avars>>

(* The validator, the load cell driver, the actuator transport and the      *)
(* inject bookkeeping, each followed in a specification of its own.          *)
xvars == <<fw, vr, pg, tc, es>>

hvars == <<validation, ew, lc, sq, inj, xvars>>

ovars == <<state_, loaded_program_, loads, stop_requested_, pause_requested_,
           execution_thread_, mutex_, crashed, thr, lastprim>>

vars == <<l0, l1, l1_mutex, last, s6, g0, g1, calls,
          state_, loaded_program_, loads, stop_requested_, pause_requested_,
          execution_thread_, mutex_, crashed, thr, lastprim,
          current_peripheral_state_, sent, tcall,
          validation, ew, lc, sq, inj, sub, fw, vr, pg, tc, es>>

----------------------------------------------------------------------------
(* SystemState::State and HardwareState *)

L0States == {"INITIAL", "DRAIN", "CLEAN", "SAMPLE", "INJECT"}

HardwareState ==
    {"IDLE",
     "INJECT_PREPARING", "INJECT_RUNNING", "INJECT_STABILIZING",
     "DRAIN_PREPARING", "DRAIN_RUNNING",
     "CLEAN_PREPARING", "CLEAN_FILLING", "CLEAN_DRAINING",
     "SAMPLE_PREPARING", "SAMPLE_ACQUIRING",
     "ERROR", "EMERGENCY_STOP"}

(* HardwareStateMachine::initialize_transition_rules: valid_transitions_ *)
valid_transitions(from) ==
    CASE from = "IDLE" ->
            {"INJECT_PREPARING", "DRAIN_PREPARING", "CLEAN_PREPARING",
             "SAMPLE_PREPARING", "ERROR", "EMERGENCY_STOP"}
      [] from = "INJECT_PREPARING" ->
            {"INJECT_RUNNING", "IDLE", "ERROR", "EMERGENCY_STOP"}
      [] from = "INJECT_RUNNING" ->
            {"INJECT_STABILIZING", "IDLE", "ERROR", "EMERGENCY_STOP"}
      [] from = "INJECT_STABILIZING" ->
            {"IDLE", "ERROR", "EMERGENCY_STOP"}
      [] from = "DRAIN_PREPARING" ->
            {"DRAIN_RUNNING", "IDLE", "ERROR", "EMERGENCY_STOP"}
      [] from = "DRAIN_RUNNING" ->
            {"IDLE", "ERROR", "EMERGENCY_STOP"}
      [] from = "CLEAN_PREPARING" ->
            {"CLEAN_FILLING", "IDLE", "ERROR", "EMERGENCY_STOP"}
      [] from = "CLEAN_FILLING" ->
            {"CLEAN_DRAINING", "IDLE", "ERROR", "EMERGENCY_STOP"}
      [] from = "CLEAN_DRAINING" ->
            {"CLEAN_FILLING", "IDLE", "ERROR", "EMERGENCY_STOP"}
      [] from = "SAMPLE_PREPARING" ->
            {"SAMPLE_ACQUIRING", "IDLE", "ERROR", "EMERGENCY_STOP"}
      [] from = "SAMPLE_ACQUIRING" ->
            {"IDLE", "ERROR", "EMERGENCY_STOP"}
      [] from = "ERROR" -> {"IDLE"}
      [] from = "EMERGENCY_STOP" -> {"IDLE"}
      [] OTHER -> {}

(* HardwareStateMachine::can_transition_to *)
can_transition_to(current, target) == target \in valid_transitions(current)

(* HardwareStateMachine::to_legacy_state *)
to_legacy_state(state) ==
    CASE state \in {"IDLE", "ERROR", "EMERGENCY_STOP"} -> "INITIAL"
      [] state \in {"INJECT_PREPARING", "INJECT_RUNNING", "INJECT_STABILIZING"} -> "INJECT"
      [] state \in {"DRAIN_PREPARING", "DRAIN_RUNNING"} -> "DRAIN"
      [] state \in {"CLEAN_PREPARING", "CLEAN_FILLING", "CLEAN_DRAINING"} -> "CLEAN"
      [] state \in {"SAMPLE_PREPARING", "SAMPLE_ACQUIRING"} -> "SAMPLE"
      [] OTHER -> "INITIAL"

(* HardwareStateMachine::from_legacy_state *)
from_legacy_state(state) ==
    CASE state = "INITIAL" -> "IDLE"
      [] state = "INJECT" -> "INJECT_RUNNING"
      [] state = "DRAIN" -> "DRAIN_RUNNING"
      [] state = "CLEAN" -> "CLEAN_FILLING"
      [] state = "SAMPLE" -> "SAMPLE_ACQUIRING"
      [] OTHER -> "IDLE"

----------------------------------------------------------------------------
(* The two machines as one value [l0, l1, mx]; every method below maps the  *)
(* value before the call to the value after it and what the caller sees.    *)

Machines(a, b, m) == [l0 |-> a, l1 |-> b, mx |-> m]

(* std::lock_guard on HardwareStateMachine::mutex_ taken by the thread that *)
(* already owns it (request_transition -> apply_legacy_state ->             *)
(* SystemState::transition_to -> state_callback_ -> on_legacy_state_changed)*)
(* is undefined for std::mutex: the thread waits on itself forever, or the  *)
(* lock is passed through.                                                  *)
RelockOutcomes == {"deadlock", "proceeds"}

(* Variant of on_legacy_state_changed without the early return: the observer *)
(* always installs the representative state.                                 *)
on_legacy_state_changed_always(current, new_state) == from_legacy_state(new_state)

(* The body of on_legacy_state_changed once it owns the mutex: the new L1   *)
(* state for L1 state `current` when L0 has become `new_state`.             *)
on_legacy_state_changed(current, new_state) ==
    IF to_legacy_state(current) = new_state
    THEN current
    ELSE from_legacy_state(new_state)

(* SystemState::transition_to with the L1 observer registered as            *)
(* state_callback_. `holder`: the calling thread owns the L1 mutex.         *)
(* ret = "hang": the call never returns (L0 has already changed).           *)
transition_to(s, target_state, holder, relock) ==
    IF s.l0 = target_state
    THEN [s |-> s, ret |-> "returned"]
    ELSE LET moved == [s EXCEPT !.l0 = target_state]
             synced == [moved EXCEPT !.l1 = on_legacy_state_changed(s.l1, target_state)]
         IN  IF holder
             THEN IF relock = "deadlock"
                  THEN [s |-> [moved EXCEPT !.mx = "stuck"], ret |-> "hang"]
                  ELSE [s |-> synced, ret |-> "returned"]
             ELSE IF s.mx = "stuck"
                  THEN [s |-> moved, ret |-> "hang"]
                  ELSE [s |-> synced, ret |-> "returned"]

(* Variant of apply_legacy_state that leaves SystemState alone. *)
apply_legacy_state_skipped(s, state, relock) == [s |-> s, ret |-> "returned"]

(* HardwareStateMachine::apply_legacy_state, called with mutex_ held *)
apply_legacy_state(s, state, relock) ==
    transition_to(s, to_legacy_state(state), TRUE, relock)

(* HardwareStateMachine::request_transition; result is TransitionResult.success *)
(* ("ok" / "fail"), or "hang" when the call never returns.                     *)
request_transition(s, target, relock) ==
    IF s.l1 = target
    THEN [s |-> s, result |-> "ok"]
    ELSE IF ~can_transition_to(s.l1, target)
    THEN [s |-> s, result |-> "fail"]
    ELSE LET r == apply_legacy_state([s EXCEPT !.l1 = target], target, relock)
         IN  [s |-> r.s, result |-> IF r.ret = "hang" THEN "hang" ELSE "ok"]

(* HardwareStateMachine::force_transition *)
force_transition(s, target, relock) ==
    LET r == apply_legacy_state([s EXCEPT !.l1 = target], target, relock)
    IN  [s |-> r.s, result |-> IF r.ret = "hang" THEN "hang" ELSE "ok"]

(* HardwareStateMachine::emergency_stop *)
emergency_stop(s, relock) == force_transition(s, "EMERGENCY_STOP", relock)

(* HardwareStateMachine::recover_from_error *)
recover_from_error(s, relock) ==
    IF s.l1 # "ERROR" /\ s.l1 # "EMERGENCY_STOP"
    THEN [s |-> s, result |-> "fail"]
    ELSE LET r == apply_legacy_state([s EXCEPT !.l1 = "IDLE"], "IDLE", relock)
         IN  [s |-> r.s, result |-> IF r.ret = "hang" THEN "hang" ELSE "ok"]

(* SystemState::start_drain / stop_drain / start_clean / stop_clean, and the *)
(* mode change of start_inject / stop_inject, from a thread outside L1.      *)
start_drain(s) == transition_to(s, "DRAIN", FALSE, "proceeds")
stop_drain(s) == transition_to(s, "INITIAL", FALSE, "proceeds")
start_clean(s) == transition_to(s, "CLEAN", FALSE, "proceeds")
stop_clean(s) == transition_to(s, "INITIAL", FALSE, "proceeds")
start_inject(s) == transition_to(s, "INJECT", FALSE, "proceeds")
stop_inject(s) == transition_to(s, "INITIAL", FALSE, "proceeds")

----------------------------------------------------------------------------
(* Transaction guards (transaction_guard.hpp). A guard value is              *)
(* [alive, initial, committed]: initial_state_ and committed_ of the guard   *)
(* object now in scope. A guard whose thread hangs inside one of its methods *)
(* is never destroyed and leaves the scope for good.                         *)

NoGuard0 == [alive |-> FALSE, initial |-> "INITIAL", committed |-> FALSE]
NoGuard1 == [alive |-> FALSE, initial |-> "IDLE", committed |-> FALSE]

(* StateTransactionGuard::StateTransactionGuard; target_state "nullopt" = std::nullopt *)
StateTransactionGuard(s, target_state) ==
    LET r == IF target_state = "nullopt"
             THEN [s |-> s, ret |-> "returned"]
             ELSE transition_to(s, target_state, FALSE, "proceeds")
    IN  [s |-> r.s, ret |-> r.ret,
         g |-> IF r.ret = "hang" THEN NoGuard0
               ELSE [alive |-> TRUE, initial |-> s.l0, committed |-> FALSE]]

(* Variant of ~StateTransactionGuard that never rolls back. *)
StateTransactionGuard_dtor_norollback(s, g) ==
    [s |-> s, ret |-> "returned", g |-> NoGuard0]

(* StateTransactionGuard::~StateTransactionGuard *)
StateTransactionGuard_dtor(s, g) ==
    IF ~g.committed
    THEN LET r == transition_to(s, g.initial, FALSE, "proceeds")
         IN  [s |-> r.s, ret |-> r.ret, g |-> NoGuard0]
    ELSE [s |-> s, ret |-> "returned", g |-> NoGuard0]

(* StateTransactionGuard::commit *)
StateTransactionGuard_commit(s, g) ==
    [s |-> s, ret |-> "returned", g |-> [g EXCEPT !.committed = TRUE]]

(* StateTransactionGuard::commit_with_state *)
StateTransactionGuard_commit_with_state(s, g, final_state) ==
    LET r == transition_to(s, final_state, FALSE, "proceeds")
    IN  [s |-> r.s, ret |-> r.ret,
         g |-> IF r.ret = "hang" THEN NoGuard0 ELSE [g EXCEPT !.committed = TRUE]]

(* Variant of commit_and_restore that commits without restoring. *)
StateTransactionGuard_commit_only(s, g) ==
    [s |-> s, ret |-> "returned", g |-> [g EXCEPT !.committed = TRUE]]

(* StateTransactionGuard::commit_and_restore *)
StateTransactionGuard_commit_and_restore(s, g) ==
    LET r == transition_to(s, g.initial, FALSE, "proceeds")
    IN  [s |-> r.s, ret |-> r.ret,
         g |-> IF r.ret = "hang" THEN NoGuard0 ELSE [g EXCEPT !.committed = TRUE]]

(* HardwareTransactionGuard::HardwareTransactionGuard (non-null hardware_sm) *)
HardwareTransactionGuard(s, target_state, relock) ==
    LET r == IF target_state = "nullopt"
             THEN [s |-> s, result |-> "ok"]
             ELSE request_transition(s, target_state, relock)
    IN  [s |-> r.s, ret |-> IF r.result = "hang" THEN "hang" ELSE "returned",
         g |-> IF r.result = "hang" THEN NoGuard1
               ELSE [alive |-> TRUE, initial |-> s.l1, committed |-> FALSE]]

(* HardwareTransactionGuard::~HardwareTransactionGuard *)
HardwareTransactionGuard_dtor(s, g, relock) ==
    IF ~g.committed
    THEN LET r == force_transition(s, g.initial, relock)
         IN  [s |-> r.s, ret |-> IF r.result = "hang" THEN "hang" ELSE "returned",
              g |-> NoGuard1]
    ELSE [s |-> s, ret |-> "returned", g |-> NoGuard1]

(* HardwareTransactionGuard::commit *)
HardwareTransactionGuard_commit(s, g) ==
    [s |-> s, ret |-> "returned", g |-> [g EXCEPT !.committed = TRUE]]

(* HardwareTransactionGuard::commit_with_state *)
HardwareTransactionGuard_commit_with_state(s, g, final_state, relock) ==
    LET r == request_transition(s, final_state, relock)
    IN  [s |-> r.s, ret |-> IF r.result = "hang" THEN "hang" ELSE "returned",
         g |-> IF r.result = "hang" THEN NoGuard1 ELSE [g EXCEPT !.committed = TRUE]]

(* HardwareTransactionGuard::commit_and_restore *)
HardwareTransactionGuard_commit_and_restore(s, g, relock) ==
    LET r == force_transition(s, g.initial, relock)
    IN  [s |-> r.s, ret |-> IF r.result = "hang" THEN "hang" ELSE "returned",
         g |-> IF r.result = "hang" THEN NoGuard1 ELSE [g EXCEPT !.committed = TRUE]]

----------------------------------------------------------------------------
(* The peripheral vector (PeripheralState) and the G-code that               *)
(* SystemState sends. PWM values are in tenths (10 = 1.0); pumps is the set  *)
(* of stepper pumps whose PumpState is RUNNING.                              *)

NumPumps == 8

Pumps == 0..(NumPumps - 1)

(* SystemState::STATE_DEFINITIONS *)
STATE_DEFINITIONS(state) ==
    CASE state = "INITIAL" ->
            [valve_waste |-> 0, valve_pinch |-> 0, valve_air |-> 0, valve_outlet |-> 0,
             air_pump_pwm |-> 0, cleaning_pump |-> 0, pumps |-> {}, heater_chamber |-> 0]
      [] state = "DRAIN" ->
            [valve_waste |-> 1, valve_pinch |-> 0, valve_air |-> 0, valve_outlet |-> 1,
             air_pump_pwm |-> 10, cleaning_pump |-> 0, pumps |-> {}, heater_chamber |-> 0]
      [] state = "CLEAN" ->
            [valve_waste |-> 0, valve_pinch |-> 1, valve_air |-> 0, valve_outlet |-> 0,
             air_pump_pwm |-> 0, cleaning_pump |-> 10, pumps |-> {}, heater_chamber |-> 0]
      [] state = "SAMPLE" ->
            [valve_waste |-> 0, valve_pinch |-> 0, valve_air |-> 1, valve_outlet |-> 0,
             air_pump_pwm |-> 10, cleaning_pump |-> 0, pumps |-> {}, heater_chamber |-> 0]
      [] state = "INJECT" ->
            [valve_waste |-> 0, valve_pinch |-> 1, valve_air |-> 0, valve_outlet |-> 0,
             air_pump_pwm |-> 0, cleaning_pump |-> 0, pumps |-> {}, heater_chamber |-> 0]

SetPin(pin, value) == <<"SET_PIN", pin, value>>

AsyncStop == <<"ENOSE_ASYNC_STOP">>

(* "MANUAL_STEPPER STEPPER=pump_i ENABLE=0" for the pumps of ps, by index. *)
PumpStops(ps) ==
    LET idx == SelectSeq([i \in 1..NumPumps |-> i - 1], LAMBDA i : i \in ps)
    IN  [k \in 1..Len(idx) |-> <<"MANUAL_STEPPER", idx[k]>>]

(* The soft start of the cleaning pump: steps of 100 ms each. *)
RampSteps == 10

CleaningPumpCommands(start_val, end_val) ==
    IF end_val > start_val
    THEN [i \in 1..RampSteps |->
            SetPin("cleaning_pump", start_val + ((end_val - start_val) \div RampSteps) * i)]
    ELSE <<SetPin("cleaning_pump", end_val)>>

(* SystemState::apply_peripheral_state: the commands it sends, in the order  *)
(* of its if statements. It then stores state as the current vector.         *)
apply_peripheral_state(cur, state) ==
    (IF state.valve_outlet # cur.valve_outlet
     THEN <<SetPin("valve_outlet", state.valve_outlet)>> ELSE <<>>)
    \o (IF state.valve_pinch # cur.valve_pinch
        THEN <<SetPin("valve_pinch", state.valve_pinch),
               SetPin("inject_fan", state.valve_pinch),
               SetPin("inject_fan_2", state.valve_pinch)>>
        ELSE <<>>)
    \o (IF state.valve_waste # cur.valve_waste
        THEN <<SetPin("valve_waste", state.valve_waste)>> ELSE <<>>)
    \o (IF state.valve_air # cur.valve_air
        THEN <<SetPin("valve_air", state.valve_air)>> ELSE <<>>)
    \o (IF state.air_pump_pwm # cur.air_pump_pwm
        THEN <<SetPin("air_pump_pwm", state.air_pump_pwm)>> ELSE <<>>)
    \o (IF state.cleaning_pump # cur.cleaning_pump
        THEN CleaningPumpCommands(cur.cleaning_pump, state.cleaning_pump) ELSE <<>>)
    \o PumpStops(cur.pumps \ state.pumps)

(* The actuator side of SystemState::transition_to: nothing when the target  *)
(* is the current mode; else the automatic stop of running pumps, then       *)
(* apply_peripheral_state of the target's vector.                            *)
transition_to_actuator(current_state, cur, target_state) ==
    IF current_state = target_state
    THEN [vector |-> cur, cmds |-> <<>>, changed |-> FALSE]
    ELSE LET running == cur.pumps # {}
             stopped == [cur EXCEPT !.pumps = {}]
             state == STATE_DEFINITIONS(target_state)
         IN  [vector |-> state,
              cmds |-> (IF running THEN <<AsyncStop>> ELSE <<>>)
                       \o apply_peripheral_state(stopped, state),
              changed |-> TRUE]

NoSent ==
    [prior |-> STATE_DEFINITIONS("INITIAL"), next |-> STATE_DEFINITIONS("INITIAL"),
     changed |-> FALSE, pre |-> <<>>, cmds |-> <<>>, post |-> <<>>]

NoTCall == [pc |-> "idle", target |-> "-"]

----------------------------------------------------------------------------
(* State after construction: SystemState() and HardwareStateMachine(), the   *)
(* latter registering on_legacy_state_changed as L0's state_callback_.       *)

(* Orchestrator data. A step is named by its action_case; the parameters of  *)
(* a step (set_state's target, wash's repeat_count, whether a sensor wait    *)
(* succeeds) are chosen when the step runs.                                  *)
MaxThreads == 2

Threads == 1..MaxThreads

MaxLoads == 2

MaxRepeat == 1

PrimitiveKinds == {"inject", "drain", "acquire", "wash"}

StepKinds == PrimitiveKinds \cup {"wait", "set_state"}

Programs ==
    {<<"inject", "wait">>, <<"set_state", "wash">>, <<"drain", "acquire">>}

NullProgram == [id |-> 0, steps |-> <<>>]

(* late: 100 ms ticks spent inside the primitive with stop_requested_ set    *)
(* and not yet observed; it_entry / it_exit: the L0 mode at the top of the   *)
(* wash iteration under way, and the mode in which the iteration just        *)
(* finished made its last transition_to.                                     *)
NoPrim ==
    [variant |-> "-", kind |-> "-", phase |-> "off", entry |-> "-",
     guard |-> NoGuard0, iter |-> 0, late |-> 0, it_entry |-> "-", it_exit |-> "-"]

(* wait: the thread's position in wait_if_paused; ev / ev_paused: the event  *)
(* the thread has just pushed to event_queue_ (a subscriber is connected)    *)
(* and whether state_ was EXP_PAUSED at that moment; stopped: StopExperiment *)
(* took its RUNNING/PAUSED branch during this run; end_state: the state_     *)
(* the thread function wrote when it ended.                                  *)
NoThread ==
    [pc |-> "none", prog |-> 0, steps |-> <<>>, ip |-> 0, err |-> FALSE,
     end_l0 |-> "-", prim |-> NoPrim, wait |-> "no", ev |-> "-",
     ev_paused |-> FALSE, stopped |-> FALSE, end_state |-> "-"]

NoPrimResult ==
    [variant |-> "-", kind |-> "-", entry |-> "-", exit |-> "-", how |-> "-",
     entry_l1 |-> "-", step_ok |-> FALSE]

(* Threads that call SystemState directly (gRPC handler threads). *)
MaxCallers == 2

Callers == 1..MaxCallers

NoCall ==
    [op |-> "none", arg |-> "-", pre_l1 |-> "IDLE", changed |-> FALSE,
     result |-> "-", initial |-> "-", committed |-> FALSE]

(* ExperimentValidator::reset: no error, empty bottle, nothing consumed. *)
ValidatorReset ==
    [errors |-> {}, current_liquid_level_ |-> 0, peak_liquid_level_ |-> 0,
     pump_totals_ |-> [i \in 0..7 |-> 0]]

(* No validate() has run yet. *)
NoValidation ==
    [called |-> FALSE, program |-> <<>>, max_fill_ml |-> 0, bottle_capacity_ml |-> 0,
     liquids |-> <<>>, valid |-> FALSE, errors |-> {}, peak_liquid_level_ml |-> 0,
     pump_consumption_ml |-> [i \in 0..7 |-> 0]]

(* std::optional<float> / std::optional<time_point> without a value. *)
Nullopt == [has_value |-> FALSE, value |-> 0]

Some(v) == [has_value |-> TRUE, value |-> v]

(* The load cell driver after construction: no dynamic empty-bottle value,   *)
(* nobody inside wait_for_empty_bottle. Weights are tenths of a gram; time   *)
(* inside wait_for_empty_bottle is counted in turns of its loop.             *)
NoEmptyWait ==
    [dynamic_empty_weight_ |-> Nullopt, pc |-> "idle",
     tolerance |-> 0, timeout_sec |-> 0, stability_window_sec |-> 0,
     reference_weight |-> 0, elapsed |-> 0, stable_count |-> 0, last_weight |-> 0,
     window_start_time |-> Nullopt, stable_weight |-> 0,
     success |-> FALSE, empty_weight |-> 0,
     before |-> Nullopt, window_min |-> 0, window_max |-> 0]

(* The load cell driver after construction: calibration wizard idle, the    *)
(* drain-complete detector never stable. call, from and path record the most *)
(* recent calibration call: its name, the step it was made in and the values *)
(* it assigned to calibration_step_; fires and later count on_drain_complete *)
(* and the samples after it since stability was last broken.                 *)
NoLoadCell ==
    [calibration_step_ |-> "IDLE", call |-> "none", from |-> "IDLE", path |-> <<>>,
     was_stable_ |-> FALSE, stable_duration |-> 0, last_trend_weight_ |-> 0,
     drain_complete_fired_ |-> FALSE, fires |-> 0, later |-> 0]

MaxCommands == 3

(* The ActuatorDriver after construction: not connected, rpc_id_ 1, nothing  *)
(* queued. posted: the handlers send_gcode has posted to io_ and that have   *)
(* not run yet; submitted: the number of calls of send_gcode; writing: an    *)
(* async_write is outstanding; written: the messages written, in order;      *)
(* failed: the messages whose write failed.                                  *)
NoSendQueue ==
    [connected_ |-> FALSE, handshaken |-> FALSE, rpc_id_ |-> 1, submitted |-> 0,
     posted |-> <<>>, send_queue_ |-> <<>>, writing |-> FALSE,
     written |-> <<>>, failed |-> {}]

(* InjectionParams after construction: every pump_i_volume is 0. *)
NoInjectionParams == [i \in 0..7 |-> 0]

(* No inject primitive has run yet. *)
NoInject ==
    [ran |-> FALSE, variant |-> "-", components |-> <<>>, liquids |-> <<>>,
     params |-> NoInjectionParams, exit |-> "-", inject_seconds |-> 0,
     sink |-> FALSE, consumption |-> <<>>]

MaxEvents == 2

MaxSubscribers == 2

Subscribers == 1..MaxSubscribers

(* No call of SubscribeExperimentEvents yet. cancelled: the caller of the    *)
(* subscription has disconnected; received: the events written to it;        *)
(* ended_by: what made its loop end; since: the number of events emitted     *)
(* before it subscribed.                                                     *)
NoSubscribers ==
    [event_queue_ |-> <<>>, emitted |-> 0, subscriber_count_ |-> 0,
     subscription |-> [s \in Subscribers |->
                        [pc |-> "none", cancelled |-> FALSE, received |-> <<>>,
                         ended_by |-> "-", since |-> 0]]]

MaxMessages == 3

(* The ActuatorDriver before any message has been read: firmware_ready_ is   *)
(* initialised to true. log: the messages on_read has handled, in order.     *)
NoFirmware == [firmware_ready_ |-> TRUE, log |-> <<>>]

RpcCalls == {1, 2}

NoProgramPointer == [owner |-> 0, max_fill_ml |-> 0, bottle_capacity_ml |-> 0, liquids |-> <<>>]

NoValidateCall ==
    [pc |-> "none", rpc |-> "-", program |-> <<>>, hw |-> NoProgramPointer, ip |-> 1,
     result |-> [valid |-> FALSE, errors |-> {}, peak_liquid_level_ml |-> 0]]

(* The validator_ member after construction and no validation in progress.   *)
(* v: errors_, the levels and pump_totals_; program_: the envelope of the    *)
(* program the pointer program_ refers to, and the call that owns it;        *)
(* liquid_map_: the inventories build_liquid_map has entered.                *)
NoVr ==
    [v |-> ValidatorReset, program_ |-> NoProgramPointer, liquid_map_ |-> <<>>,
     call |-> [c \in RpcCalls |-> NoValidateCall]]

MaxLoopBody == 3

(* No program started. program: the top-level steps, each a plain step or a  *)
(* loop of `count` iterations over `body` plain steps; i, k, j: the loop     *)
(* variables of execute_steps at the top, of execute_loop and of             *)
(* execute_steps in the body; progress_percent: the value in the last        *)
(* status response (-1: none yet).                                           *)
NoPg ==
    [pc |-> "none", program |-> <<>>, i |-> 0, k |-> 0, j |-> 0,
     current_step_index_ |-> 0, loop_iteration_ |-> 0, loop_total_ |-> 0,
     progress_percent |-> -1]

MaxStarts == 3

MaxCycles == 2

(* The TestController after construction. mutex_: "free", or "start_test"    *)
(* while a start_test that waits in join() holds it; thread: where the       *)
(* thread of test_thread_ is ("none": no thread object); left: the cycles    *)
(* the thread has still to run; stop: a stop_test between its write of       *)
(* stop_requested_ and its lock of mutex_.                                   *)
NoTc ==
    [state_ |-> "IDLE", mutex_ |-> "free", stop_requested_ |-> FALSE,
     thread |-> "none", left |-> 0, joining |-> FALSE, stop |-> "idle",
     starts |-> 0, returned |-> "-"]

(* No EmergencyStop yet. ip: where each executor thread was in its program   *)
(* when EmergencyStop returned.                                               *)
NoEs == [stopped |-> FALSE, ip |-> [t \in Threads |-> 0]]

Init ==
    /\ l0 = "INITIAL"
    /\ l1 = "IDLE"
    /\ l1_mutex = "free"
    /\ last = NoCall
    /\ s6 = "start"
    /\ g0 = NoGuard0
    /\ g1 = NoGuard1
    /\ calls = [c \in Callers |-> "idle"]
    /\ current_peripheral_state_ = STATE_DEFINITIONS("INITIAL")
    /\ sent = NoSent
    /\ tcall = [c \in Callers |-> NoTCall]
    /\ state_ = "IDLE"
    /\ loaded_program_ = NullProgram
    /\ loads = 0
    /\ stop_requested_ = FALSE
    /\ pause_requested_ = FALSE
    /\ execution_thread_ = 0
    /\ mutex_ = "free"
    /\ crashed = FALSE
    /\ thr = [t \in Threads |-> NoThread]
    /\ lastprim = NoPrimResult
    /\ validation = NoValidation
    /\ ew = NoEmptyWait
    /\ lc = NoLoadCell
    /\ sq = NoSendQueue
    /\ inj = NoInject
    /\ sub = NoSubscribers
    /\ fw = NoFirmware
    /\ vr = NoVr
    /\ pg = NoPg
    /\ tc = NoTc
    /\ es = NoEs

Now == Machines(l0, l1, l1_mutex)

(* Install the machines' new value and note the call that produced it. *)
Apply(news, op, arg, result, initial, committed) ==
    /\ l0' = news.l0
    /\ l1' = news.l1
    /\ l1_mutex' = news.mx
    /\ last' = [op |-> op, arg |-> arg, pre_l1 |-> l1, changed |-> news.l0 # l0,
                result |-> result, initial |-> initial, committed |-> committed]
    /\ s6' = IF s6 = "start" /\ op = "start_drain" /\ result = "returned"
                           /\ news.l1 = "DRAIN_RUNNING"
             THEN "drained"
             ELSE IF s6 = "drained" /\ op = "request_transition" /\ arg = "IDLE"
             THEN "requested"
             ELSE "off"
    /\ UNCHANGED <<calls, avars>>
    /\ UNCHANGED <<ovars, hvars, sub>>

(* A caller of an L1 method first takes mutex_; with the mutex stuck it waits *)
(* forever and the call has no effect.                                        *)
RequestTransition ==
    \E target \in HardwareState, relock \in RelockOutcomes :
        /\ l1_mutex = "free"
        /\ LET r == request_transition(Now, target, relock)
           IN  Apply(r.s, "request_transition", target, r.result, "-", FALSE)
        /\ UNCHANGED <<g0, g1>>

ForceTransition ==
    \E target \in HardwareState, relock \in RelockOutcomes :
        /\ l1_mutex = "free"
        /\ LET r == force_transition(Now, target, relock)
           IN  Apply(r.s, "force_transition", target, r.result, "-", FALSE)
        /\ UNCHANGED <<g0, g1>>

EmergencyStop ==
    \E relock \in RelockOutcomes :
        /\ l1_mutex = "free"
        /\ LET r == emergency_stop(Now, relock)
           IN  Apply(r.s, "emergency_stop", "EMERGENCY_STOP", r.result, "-", FALSE)
        /\ UNCHANGED <<g0, g1>>

RecoverFromError ==
    \E relock \in RelockOutcomes :
        /\ l1_mutex = "free"
        /\ LET r == recover_from_error(Now, relock)
           IN  Apply(r.s, "recover_from_error", "IDLE", r.result, "-", FALSE)
        /\ UNCHANGED <<g0, g1>>

(* Direct calls on SystemState from outside L1 (ControlServiceImpl,           *)
(* TestServiceImpl): the named methods and transition_to itself.              *)
L0Methods ==
    {"start_drain", "stop_drain", "start_clean", "stop_clean",
     "start_inject", "stop_inject"}

SystemStateCall ==
    \/ \E m \in L0Methods :
          LET r == CASE m = "start_drain" -> start_drain(Now)
                     [] m = "stop_drain" -> stop_drain(Now)
                     [] m = "start_clean" -> start_clean(Now)
                     [] m = "stop_clean" -> stop_clean(Now)
                     [] m = "start_inject" -> start_inject(Now)
                     [] m = "stop_inject" -> stop_inject(Now)
          IN  /\ Apply(r.s, m, r.s.l0, r.ret, "-", FALSE)
              /\ UNCHANGED <<g0, g1>>
    \/ \E target \in L0States :
          LET r == transition_to(Now, target, FALSE, "proceeds")
          IN  /\ Apply(r.s, "transition_to", target, r.ret, "-", FALSE)
              /\ UNCHANGED <<g0, g1>>

Guard0Open ==
    \E target \in L0States \cup {"nullopt"} :
        /\ ~g0.alive /\ ~g1.alive
        /\ LET r == StateTransactionGuard(Now, target)
           IN  /\ Apply(r.s, "guard0_open", target, r.ret, r.g.initial, FALSE)
               /\ g0' = r.g
        /\ UNCHANGED g1

Guard0Commit ==
    /\ g0.alive
    /\ \/ LET r == StateTransactionGuard_commit(Now, g0)
          IN  /\ Apply(r.s, "guard0_commit", "-", r.ret, g0.initial, g0.committed)
              /\ g0' = r.g
       \/ LET r == StateTransactionGuard_commit_and_restore(Now, g0)
          IN  /\ Apply(r.s, "guard0_commit_and_restore", "-", r.ret, g0.initial, g0.committed)
              /\ g0' = r.g
       \/ \E final \in L0States :
             LET r == StateTransactionGuard_commit_with_state(Now, g0, final)
             IN  /\ Apply(r.s, "guard0_commit_with_state", final, r.ret, g0.initial, g0.committed)
                 /\ g0' = r.g
    /\ UNCHANGED g1

Guard0Destroy ==
    /\ g0.alive
    /\ LET r == StateTransactionGuard_dtor(Now, g0)
       IN  /\ Apply(r.s, "guard0_destroy", "-", r.ret, g0.initial, g0.committed)
           /\ g0' = r.g
    /\ UNCHANGED g1

Guard1Open ==
    \E target \in HardwareState \cup {"nullopt"}, relock \in RelockOutcomes :
        /\ ~g1.alive /\ ~g0.alive
        /\ target # "nullopt" => l1_mutex = "free"
        /\ LET r == HardwareTransactionGuard(Now, target, relock)
           IN  /\ Apply(r.s, "guard1_open", target, r.ret, r.g.initial, FALSE)
               /\ g1' = r.g
        /\ UNCHANGED g0

Guard1Commit ==
    /\ g1.alive
    /\ \/ LET r == HardwareTransactionGuard_commit(Now, g1)
          IN  /\ Apply(r.s, "guard1_commit", "-", r.ret, g1.initial, g1.committed)
              /\ g1' = r.g
       \/ \E relock \in RelockOutcomes :
             /\ l1_mutex = "free"
             /\ LET r == HardwareTransactionGuard_commit_and_restore(Now, g1, relock)
                IN  /\ Apply(r.s, "guard1_commit_and_restore", "-", r.ret,
                             g1.initial, g1.committed)
                    /\ g1' = r.g
       \/ \E final \in HardwareState, relock \in RelockOutcomes :
             /\ l1_mutex = "free"
             /\ LET r == HardwareTransactionGuard_commit_with_state(Now, g1, final, relock)
                IN  /\ Apply(r.s, "guard1_commit_with_state", final, r.ret,
                             g1.initial, g1.committed)
                    /\ g1' = r.g
    /\ UNCHANGED g0

Guard1Destroy ==
    \E relock \in RelockOutcomes :
        /\ g1.alive
        /\ ~g1.committed => l1_mutex = "free"
        /\ LET r == HardwareTransactionGuard_dtor(Now, g1, relock)
           IN  /\ Apply(r.s, "guard1_destroy", "-", r.ret, g1.initial, g1.committed)
               /\ g1' = r.g
        /\ UNCHANGED g0

(* The machines driven through their public methods. *)
NextSM ==
    \/ RequestTransition
    \/ ForceTransition
    \/ EmergencyStop
    \/ RecoverFromError
    \/ SystemStateCall

SpecSM == Init /\ [][NextSM]_vars

(* One guard in scope at a time; between its construction and destruction   *)
(* the owning code drives the machines as the executors do.                 *)
NextGuard ==
    \/ Guard0Open
    \/ Guard0Commit
    \/ Guard0Destroy
    \/ Guard1Open
    \/ Guard1Commit
    \/ Guard1Destroy
    \/ SystemStateCall
    \/ RequestTransition

SpecGuard == Init /\ [][NextGuard]_vars

(* SystemState::transition_to up to and including the write of             *)
(* current_state_ and apply_peripheral_state; the caller then enters         *)
(* state_callback_. SystemState has no lock: callers interleave here.        *)
TransitionToWrite ==
    \E c \in Callers, target_state \in L0States :
        /\ calls[c] = "idle"
        /\ l0 # target_state
        /\ l0' = target_state
        /\ calls' = [calls EXCEPT ![c] = target_state]
        /\ last' = [NoCall EXCEPT !.op = "transition_to_write", !.arg = target_state,
                                  !.pre_l1 = l1, !.changed = TRUE]
        /\ s6' = "off"
        /\ UNCHANGED <<l1, l1_mutex, g0, g1, avars>>
        /\ UNCHANGED <<ovars, hvars, sub>>

(* state_callback_(old_state, new_state) -> on_legacy_state_changed, under    *)
(* HardwareStateMachine::mutex_.                                              *)
ObserverRun ==
    \E c \in Callers :
        /\ calls[c] # "idle"
        /\ l1_mutex = "free"
        /\ l1' = on_legacy_state_changed(l1, calls[c])
        /\ calls' = [calls EXCEPT ![c] = "idle"]
        /\ last' = [NoCall EXCEPT !.op = "on_legacy_state_changed", !.arg = calls[c],
                                  !.pre_l1 = l1, !.changed = TRUE,
                                  !.result = "returned"]
        /\ s6' = "off"
        /\ UNCHANGED <<l0, l1_mutex, g0, g1, avars>>
        /\ UNCHANGED <<ovars, hvars, sub>>

(* Direct callers of SystemState racing with each other and with callers of *)
(* HardwareStateMachine::request_transition.                                *)
NextObs ==
    \/ TransitionToWrite
    \/ ObserverRun
    \/ RequestTransition

SpecObs == Init /\ [][NextObs]_vars

----------------------------------------------------------------------------
(* SystemState with its actuator side, one call at a time.                   *)

(* Install the result r of transition_to_actuator, the machines s after the  *)
(* call, and the commands the calling method sent around the transition.     *)
ApplyActuator(s, r, pre, post, now_running) ==
    /\ l0' = s.l0
    /\ l1' = s.l1
    /\ l1_mutex' = s.mx
    /\ current_peripheral_state_' = [r.vector EXCEPT !.pumps = @ \cup now_running]
    /\ sent' = [prior |-> IF pre = <<>> THEN current_peripheral_state_
                          ELSE [current_peripheral_state_ EXCEPT !.pumps = {}],
                next |-> r.vector, changed |-> r.changed,
                pre |-> pre, cmds |-> r.cmds, post |-> post]
    /\ UNCHANGED <<last, s6, g0, g1, calls, tcall>>
    /\ UNCHANGED <<ovars, hvars, sub>>

(* SystemState::transition_to, with start_drain, stop_drain, start_clean and *)
(* stop_clean, which only call it.                                           *)
PeriphTransitionTo ==
    \E target_state \in L0States :
        /\ l1_mutex = "free"
        /\ ApplyActuator(transition_to(Now, target_state, FALSE, "proceeds").s,
                         transition_to_actuator(l0, current_peripheral_state_, target_state),
                         <<>>, <<>>, {})

(* InjectionParams, as the set of pumps given a volume above zero. *)
InjectionParams == {{}, {0}, {0, 3}, {NumPumps - 1}, Pumps}

(* SystemState::start_inject; volumes: the pumps with a volume above zero.   *)
PeriphStartInject ==
    \E volumes \in InjectionParams :
        /\ l1_mutex = "free"
        /\ ApplyActuator(start_inject(Now).s,
                         transition_to_actuator(l0, current_peripheral_state_, "INJECT"),
                         <<>>, <<<<"REGISTER_PUMPS_TO_AXIS">>, <<"G1", volumes>>>>, volumes)

(* SystemState::stop_inject *)
PeriphStopInject ==
    /\ l1_mutex = "free"
    /\ ApplyActuator(stop_inject(Now).s,
                     transition_to_actuator(
                         l0, [current_peripheral_state_ EXCEPT !.pumps = {}], "INITIAL"),
                     <<AsyncStop>>, <<>>, {})

NextPeriph ==
    \/ PeriphTransitionTo
    \/ PeriphStartInject
    \/ PeriphStopInject

SpecPeriph == Init /\ [][NextPeriph]_vars

----------------------------------------------------------------------------
(* SystemState::transition_to called from several threads at once (the       *)
(* executor thread, ControlServiceImpl::SetSystemState): SystemState has no  *)
(* mutex, so the calls interleave between their accesses.                    *)

(* The test on current_state_, the automatic pump stop and the write of      *)
(* current_state_.                                                           *)
RaceWrite ==
    \E c \in Callers, target_state \in L0States :
        /\ tcall[c].pc = "idle"
        /\ l0 # target_state
        /\ l0' = target_state
        /\ current_peripheral_state_' = [current_peripheral_state_ EXCEPT !.pumps = {}]
        /\ sent' = [NoSent EXCEPT !.prior = current_peripheral_state_',
                                  !.next = current_peripheral_state_',
                                  !.cmds = IF current_peripheral_state_.pumps # {}
                                           THEN <<AsyncStop>> ELSE <<>>]
        /\ tcall' = [tcall EXCEPT ![c] = [pc |-> "written", target |-> target_state]]
        /\ UNCHANGED <<l1, l1_mutex, last, s6, g0, g1, calls>>
        /\ UNCHANGED <<ovars, hvars, sub>>

(* apply_peripheral_state(STATE_DEFINITIONS[target_state]) *)
RaceApply ==
    \E c \in Callers :
        /\ tcall[c].pc = "written"
        /\ LET state == STATE_DEFINITIONS(tcall[c].target)
           IN  /\ current_peripheral_state_' = state
               /\ sent' = [NoSent EXCEPT
                             !.prior = current_peripheral_state_, !.next = state,
                             !.changed = TRUE,
                             !.cmds = apply_peripheral_state(current_peripheral_state_, state)]
        /\ tcall' = [tcall EXCEPT ![c].pc = "applied"]
        /\ UNCHANGED <<l0, l1, l1_mutex, last, s6, g0, g1, calls>>
        /\ UNCHANGED <<ovars, hvars, sub>>

(* state_callback_(old_state, target_state), then return. *)
RaceCallback ==
    \E c \in Callers :
        /\ tcall[c].pc = "applied"
        /\ l1_mutex = "free"
        /\ l1' = on_legacy_state_changed(l1, tcall[c].target)
        /\ tcall' = [tcall EXCEPT ![c] = NoTCall]
        /\ UNCHANGED <<l0, l1_mutex, last, s6, g0, g1, calls,
                       current_peripheral_state_, sent>>
        /\ UNCHANGED <<ovars, hvars, sub>>

NextRace ==
    \/ RaceWrite
    \/ RaceApply
    \/ RaceCallback

SpecRace == Init /\ [][NextRace]_vars

----------------------------------------------------------------------------
(* The primitives: ExperimentServiceImpl::execute_inject / execute_drain /   *)
(* execute_acquire / execute_wash (variant "service") and                    *)
(* InjectExecutor / DrainExecutor / AcquireExecutor / WashExecutor::execute  *)
(* (variant "executor"). Each runs inside one StateTransactionGuard.         *)

(* The target_state handed to the guard by each primitive. *)
PrimTarget(kind) ==
    CASE kind = "inject" -> "INJECT"
      [] kind = "drain" -> "DRAIN"
      [] kind = "acquire" -> "SAMPLE"
      [] kind = "wash" -> "nullopt"

(* XxxExecutor::check_preconditions; step_ok: the checks on the step's own   *)
(* fields pass.                                                              *)
check_preconditions(kind, s, step_ok) ==
    CASE kind = "inject" ->
            step_ok /\ s.l0 = "INITIAL" /\ can_transition_to(s.l1, "INJECT_PREPARING")
      [] kind = "drain" ->
            step_ok /\ s.l0 \in {"INITIAL", "INJECT"}
                    /\ can_transition_to(s.l1, "DRAIN_RUNNING")
      [] kind = "acquire" ->
            step_ok /\ s.l0 = "INITIAL" /\ can_transition_to(s.l1, "SAMPLE_ACQUIRING")
      [] kind = "wash" ->
            step_ok /\ s.l0 = "INITIAL"

(* A stop seen by check_stop_or_pause makes wash (both variants) and the     *)
(* service's acquire return at once, leaving the rollback to the guard's     *)
(* destructor; the other primitives leave their loop and run on to           *)
(* commit_and_restore.                                                       *)
CancelByDestructor(variant, kind) ==
    kind = "wash" \/ (variant = "service" /\ kind = "acquire")

(* Variant of the entry that constructs the guard before it looks at the    *)
(* preconditions.                                                             *)
prim_begin_guard_first(s, variant, kind, step_ok, repeat) ==
    LET r == StateTransactionGuard(s, PrimTarget(kind))
    IN  IF variant = "executor" /\ ~check_preconditions(kind, s, step_ok)
        THEN [s |-> r.s, exit |-> TRUE, prim |-> NoPrim]
        ELSE [s |-> r.s, exit |-> FALSE,
              prim |-> [variant |-> variant, kind |-> kind,
                        phase |-> IF kind = "wash" THEN "w_head" ELSE "body",
                        entry |-> s.l0, guard |-> r.g,
                        iter |-> IF kind = "wash" THEN repeat ELSE 0,
                        late |-> 0, it_entry |-> "-", it_exit |-> "-"]]

(* Entry of a primitive up to and including the construction of its guard.  *)
prim_begin(s, variant, kind, step_ok, repeat) ==
    IF variant = "executor" /\ ~check_preconditions(kind, s, step_ok)
    THEN [s |-> s, exit |-> TRUE, prim |-> NoPrim]
    ELSE LET r == StateTransactionGuard(s, PrimTarget(kind))
         IN  [s |-> r.s, exit |-> FALSE,
              prim |-> [variant |-> variant, kind |-> kind,
                        phase |-> IF kind = "wash" THEN "w_head" ELSE "body",
                        entry |-> s.l0, guard |-> r.g,
                        iter |-> IF kind = "wash" THEN repeat ELSE 0,
                        late |-> 0, it_entry |-> "-", it_exit |-> "-"]]

(* guard.commit_and_restore() followed by the guard going out of scope. *)
prim_finish(s, prim) ==
    LET r == StateTransactionGuard_commit_and_restore(s, prim.guard)
    IN  StateTransactionGuard_dtor(r.s, r.g)

(* A stop request observed inside the primitive. *)
prim_cancel(s, prim) ==
    IF CancelByDestructor(prim.variant, prim.kind)
    THEN StateTransactionGuard_dtor(s, prim.guard)
    ELSE prim_finish(s, prim)

(* An exception leaving the primitive: only the guard's destructor runs. *)
prim_throw(s, prim) == StateTransactionGuard_dtor(s, prim.guard)

(* Variant of the wash loop whose iteration ends by going back to INITIAL. *)
WashNextMode_restoring(phase) ==
    CASE phase = "w_head" -> "DRAIN"
      [] phase = "w_baseline" -> "CLEAN"
      [] phase = "w_fill" -> "INITIAL"

(* The wash loop: one transition_to per phase of an iteration. *)
WashNextMode(phase) ==
    CASE phase = "w_head" -> "DRAIN"
      [] phase = "w_baseline" -> "CLEAN"
      [] phase = "w_fill" -> "DRAIN"

WashNextPhase(phase) ==
    CASE phase = "w_head" -> "w_baseline"
      [] phase = "w_baseline" -> "w_fill"
      [] phase = "w_fill" -> "w_head"

----------------------------------------------------------------------------
(* Executor threads (ExperimentServiceImpl::execution_thread_func).          *)

(* std::unique_ptr<std::thread>::operator=: the std::thread owned before is  *)
(* destroyed; no code joins or detaches it, so it is joinable and its        *)
(* destructor calls std::terminate.                                          *)
thread_handle_assign_detached(old) == "assigned"

thread_handle_assign(old) == IF old # 0 THEN "terminate" ELSE "assigned"

(* The closing system_state_->transition_to(INITIAL) of the thread function. *)
execution_thread_norestore(s) == [s |-> s, ret |-> "returned"]

execution_thread_restore(s) == transition_to(s, "INITIAL", FALSE, "proceeds")

(* The thread is between the fetch of loaded_program_->steps() and the end   *)
(* of execute_steps.                                                         *)
Walking(t) ==
    thr[t].pc \in {"loop_head", "lock_index", "dispatch", "in_step", "in_wait"}

(* The thread is inside execute_step. *)
Executing(t) == thr[t].pc \in {"dispatch", "in_step", "in_wait"}

(* The program object whose steps the thread iterates has been destroyed. *)
Freed(t) == Walking(t) /\ loaded_program_.id # thr[t].prog

(* check_stop_or_pause() returns; with a pause requested and no stop it      *)
(* waits on pause_cv_. This is also the predicate of that wait.              *)
CheckReturns == stop_requested_ \/ ~pause_requested_

(* The thread's call of check_stop_or_pause() returns now: either it never   *)
(* entered wait_if_paused, or pause_cv_.wait has returned.                   *)
CheckPasses(t) ==
    \/ thr[t].wait = "passed"
    \/ thr[t].wait = "no" /\ CheckReturns

(* The thread is not inside wait_if_paused. *)
Awake(t) == thr[t].wait \in {"no", "passed"}

(* The thread is at a call of check_stop_or_pause(): the head of             *)
(* execute_steps, the loops of execute_wait, execute_inject and              *)
(* execute_acquire, and the checks of execute_wash. execute_drain and        *)
(* wait_for_empty_bottle have none.                                          *)
AtCheck(t) ==
    \/ thr[t].pc = "loop_head" /\ (Freed(t) \/ thr[t].ip <= Len(thr[t].steps))
    \/ thr[t].pc = "in_wait"
    \/ /\ thr[t].pc \in {"in_step", "harness"}
       /\ thr[t].prim.variant = "service"
       /\ \/ thr[t].prim.kind \in {"inject", "acquire"}
          \/ thr[t].prim.kind = "wash" /\ thr[t].prim.iter > 0

SetMachines(s) == l0' = s.l0 /\ l1' = s.l1

(* Return from a primitive to its caller: execute_steps, or the harness. *)
PrimReturn(t, s, how) ==
    /\ SetMachines(s)
    /\ lastprim' = [variant |-> thr[t].prim.variant, kind |-> thr[t].prim.kind,
                    entry |-> thr[t].prim.entry, exit |-> s.l0, how |-> how,
                    entry_l1 |-> "-", step_ok |-> TRUE]
    /\ thr' = [thr EXCEPT ![t] =
                 IF thr[t].pc = "harness" THEN NoThread
                 ELSE IF how = "exception"
                 THEN [@ EXCEPT !.pc = "epilogue", !.err = TRUE, !.prim = NoPrim,
                                !.wait = "no"]
                 ELSE [@ EXCEPT !.pc = "loop_head", !.ip = @ + 1, !.prim = NoPrim,
                                !.wait = "no", !.ev = "STEP_COMPLETED",
                                !.ev_paused = (state_ = "PAUSED")]]

InPrim(t) ==
    /\ ~crashed
    /\ thr[t].pc \in {"harness", "in_step"}
    /\ thr[t].prim.phase # "off"
    /\ Awake(t)

(* The primitive reaches commit_and_restore: its wait succeeded or timed out. *)
PrimFinish ==
    \E t \in Threads, how \in {"success", "failure"} :
        /\ InPrim(t)
        /\ \/ thr[t].prim.kind \in {"drain", "acquire"}
           \/ thr[t].prim.kind = "wash" /\ thr[t].prim.phase = "w_head"
                                        /\ thr[t].prim.iter = 0
           \/ thr[t].prim.kind = "inject" /\ ~stop_requested_ /\ CheckPasses(t)
        /\ PrimReturn(t, prim_finish(Now, thr[t].prim).s, how)
        /\ UNCHANGED <<smvars, hvars, sub, state_, loaded_program_, loads, stop_requested_,
                       pause_requested_, execution_thread_, mutex_, crashed>>

PrimCancel ==
    \E t \in Threads :
        /\ InPrim(t)
        /\ stop_requested_
        /\ CheckPasses(t)
        /\ thr[t].prim.kind # "drain"
        /\ thr[t].prim.phase = "w_head" => thr[t].prim.iter > 0
        /\ PrimReturn(t, prim_cancel(Now, thr[t].prim).s, "cancel")
        /\ UNCHANGED <<smvars, hvars, sub, state_, loaded_program_, loads, stop_requested_,
                       pause_requested_, execution_thread_, mutex_, crashed>>

PrimThrow ==
    \E t \in Threads :
        /\ InPrim(t)
        /\ PrimReturn(t, prim_throw(Now, thr[t].prim).s, "exception")
        /\ UNCHANGED <<smvars, hvars, sub, state_, loaded_program_, loads, stop_requested_,
                       pause_requested_, execution_thread_, mutex_, crashed>>

(* One phase of a wash iteration: check_stop_or_pause() = false, then the    *)
(* transition_to of that phase.                                              *)
PrimWashStep ==
    \E t \in Threads :
        /\ InPrim(t)
        /\ thr[t].prim.kind = "wash"
        /\ thr[t].prim.iter > 0
        /\ ~stop_requested_ /\ CheckPasses(t)
        /\ LET r == transition_to(Now, WashNextMode(thr[t].prim.phase), FALSE, "proceeds")
           IN  /\ SetMachines(r.s)
               /\ thr' = [thr EXCEPT
                     ![t].wait = "no",
                     ![t].prim.phase = WashNextPhase(@),
                     ![t].prim.iter = IF thr[t].prim.phase = "w_fill" THEN @ - 1 ELSE @,
                     ![t].prim.late = 0,
                     ![t].prim.it_entry = IF thr[t].prim.phase = "w_head" THEN l0 ELSE @,
                     ![t].prim.it_exit = IF thr[t].prim.phase = "w_fill" THEN r.s.l0 ELSE "-"]
        /\ UNCHANGED <<smvars, hvars, sub, state_, loaded_program_, loads, stop_requested_,
                       pause_requested_, execution_thread_, mutex_, crashed, lastprim>>

(* ControlServiceImpl / TestServiceImpl handlers that call SystemState from  *)
(* their own gRPC thread (SetSystemState, StartInjection, StopInjection,     *)
(* EmergencyStop).                                                           *)
ControlRpc ==
    \E target \in L0States :
        /\ ~crashed
        /\ SetMachines(transition_to(Now, target, FALSE, "proceeds").s)
        /\ UNCHANGED <<smvars, ovars, hvars, sub>>

----------------------------------------------------------------------------
(* A primitive called on its own, from any L0 mode, with a stop callback     *)
(* whose answer may change while it runs.                                    *)

HarnessExecute ==
    \E variant \in {"service", "executor"}, kind \in PrimitiveKinds,
       step_ok \in BOOLEAN, repeat \in 0..MaxRepeat :
        /\ ~crashed
        /\ \A t \in Threads : thr[t].pc = "none"
        /\ LET b == prim_begin(Now, variant, kind,
                               step_ok /\ (kind = "wash" => repeat > 0), repeat)
           IN  /\ SetMachines(b.s)
               /\ IF b.exit
                  THEN /\ lastprim' = [variant |-> variant, kind |-> kind, entry |-> l0,
                                       exit |-> b.s.l0, how |-> "precondition",
                                       entry_l1 |-> l1,
                                       step_ok |-> step_ok /\ (kind = "wash" => repeat > 0)]
                       /\ UNCHANGED thr
                  ELSE /\ thr' = [thr EXCEPT ![1] =
                                    [NoThread EXCEPT !.pc = "harness", !.prim = b.prim]]
                       /\ UNCHANGED lastprim
        /\ UNCHANGED <<smvars, hvars, sub, state_, loaded_program_, loads, stop_requested_,
                       pause_requested_, execution_thread_, mutex_, crashed>>

HarnessStop ==
    /\ ~crashed
    /\ stop_requested_' = ~stop_requested_
    /\ thr' = [t \in Threads |-> [thr[t] EXCEPT !.prim.late = 0]]
    /\ UNCHANGED <<l0, l1, smvars, hvars, sub, state_, loaded_program_, loads, pause_requested_,
                   execution_thread_, mutex_, crashed, lastprim>>

NextExec ==
    \/ HarnessExecute
    \/ HarnessStop
    \/ ControlRpc
    \/ PrimFinish
    \/ PrimCancel
    \/ PrimThrow
    \/ PrimWashStep

SpecExec == Init /\ [][NextExec]_vars

----------------------------------------------------------------------------
(* Time, in ticks of 100 ms, for a primitive that runs while stop_requested_ *)
(* is set.                                                                   *)

(* std::this_thread::sleep_for(100 ms) between two check_stop_or_pause()     *)
(* calls of a feedback loop.                                                 *)
FeedbackTicks == 1

(* std::this_thread::sleep_for(500 ms) between two polls of                  *)
(* LoadCellDriver::wait_for_empty_bottle.                                    *)
EmptyPollTicks == 5

(* Polls of wait_for_empty_bottle before elapsed >= timeout_sec. *)
MaxPolls == 1

(* The thread is inside LoadCellDriver::wait_for_empty_bottle: the body of   *)
(* execute_drain / DrainExecutor, and the two drains of a wash iteration.    *)
InEmptyWait(t) ==
    \/ thr[t].prim.kind = "drain"
    \/ thr[t].prim.kind = "wash" /\ thr[t].prim.phase = "w_baseline"
    \/ thr[t].prim.kind = "wash" /\ thr[t].prim.phase = "w_head"
                                 /\ thr[t].prim.it_exit # "-"

(* Ticks that can pass before the thread next looks at the stop flag or      *)
(* leaves the primitive: wait_for_empty_bottle ends only on a stable empty   *)
(* bottle or on its timeout; every other loop sleeps one tick between two    *)
(* checks.                                                                   *)
TicksToNextCheck(t) ==
    IF InEmptyWait(t) THEN EmptyPollTicks * MaxPolls ELSE FeedbackTicks

(* 100 ms pass while a primitive runs with the stop flag set. *)
Tick ==
    \E t \in Threads :
        /\ InPrim(t)
        /\ stop_requested_
        /\ thr[t].prim.late < TicksToNextCheck(t)
        /\ thr' = [thr EXCEPT ![t].prim.late = @ + 1]
        /\ UNCHANGED <<l0, l1, smvars, hvars, sub, state_, loaded_program_, loads, stop_requested_,
                       pause_requested_, execution_thread_, mutex_, crashed, lastprim>>

NextTime ==
    \/ NextExec
    \/ Tick

SpecTime == Init /\ [][NextTime]_vars

----------------------------------------------------------------------------
(* The orchestrator's RPC handlers. Each runs under mutex_.                  *)

Handler == ~crashed /\ mutex_ = "free"

(* pause_cv_.notify_all(), as seen by one thread: it wakes the thread if it  *)
(* is blocked in pause_cv_.wait, and is lost on a thread that is not. The    *)
(* handlers call it under mutex_, never under pause_mutex_.                  *)
notify_all(th) == IF th.wait = "blocked" THEN [th EXCEPT !.wait = "woken"] ELSE th

(* ExperimentServiceImpl::emit_event: without a subscriber the event is     *)
(* dropped, otherwise it is pushed on event_queue_. Events are numbered in   *)
(* the order of their emission.                                               *)
emit_event(q, type) ==
    IF q.subscriber_count_ = 0 THEN q
    ELSE [q EXCEPT !.event_queue_ = Append(@, [id |-> q.emitted + 1, type |-> type]),
                   !.emitted = @ + 1]

(* A call of emit_event; at most MaxEvents events are followed. *)
EmitEvent(type) ==
    /\ sub.subscriber_count_ > 0 => sub.emitted < MaxEvents
    /\ sub' = emit_event(sub, type)

LoadProgram ==
    \E valid \in BOOLEAN, steps \in Programs :
        /\ Handler
        /\ state_ \notin {"RUNNING", "PAUSED"}
        /\ IF ~valid
           THEN /\ state_' = "IDLE"
                /\ UNCHANGED <<loaded_program_, loads, sub>>
           ELSE /\ loads < MaxLoads
                /\ loaded_program_' = [id |-> loads + 1, steps |-> steps]
                /\ loads' = loads + 1
                /\ state_' = "LOADED"
                /\ EmitEvent("PROGRAM_LOADED")
        /\ UNCHANGED <<l0, l1, smvars, hvars, stop_requested_, pause_requested_,
                       execution_thread_, mutex_, crashed, thr, lastprim>>

(* StartExperiment up to the construction of the new std::thread. *)
StartExperimentSpawn ==
    \E t \in Threads :
        /\ Handler
        /\ state_ = "LOADED"
        /\ thr[t].pc = "none"
        /\ \A u \in Threads : u < t => thr[u].pc # "none"
        /\ stop_requested_' = FALSE
        /\ pause_requested_' = FALSE
        /\ state_' = "RUNNING"
        /\ thr' = [thr EXCEPT ![t] = [NoThread EXCEPT !.pc = "spawned"]]
        /\ mutex_' = "start"
        /\ UNCHANGED <<l0, l1, smvars, hvars, sub, loaded_program_, loads, execution_thread_,
                       crashed, lastprim>>

NewestThread == CHOOSE t \in Threads :
    thr[t].pc # "none" /\ \A u \in Threads : u > t => thr[u].pc = "none"

(* The assignment to execution_thread_ and the rest of StartExperiment. *)
StartExperimentAssign ==
    /\ ~crashed
    /\ mutex_ = "start"
    /\ IF thread_handle_assign(execution_thread_) = "terminate"
       THEN /\ crashed' = TRUE
            /\ UNCHANGED <<execution_thread_, mutex_, sub>>
       ELSE /\ execution_thread_' = NewestThread
            /\ mutex_' = "free"
            /\ EmitEvent("EXPERIMENT_STARTED")
            /\ UNCHANGED crashed
    /\ UNCHANGED <<l0, l1, smvars, hvars, state_, loaded_program_, loads, stop_requested_,
                   pause_requested_, thr, lastprim>>

StopExperiment ==
    /\ Handler
    /\ state_ # "IDLE"
    /\ state_ # "ABORTING"
    /\ IF state_ \in {"LOADED", "COMPLETED", "ERROR", "ABORTED"}
       THEN /\ loaded_program_' = NullProgram
            /\ state_' = "IDLE"
            /\ UNCHANGED stop_requested_
            /\ UNCHANGED thr
            /\ UNCHANGED sub
       ELSE /\ stop_requested_' = TRUE
            /\ state_' = "ABORTING"
            /\ EmitEvent("EXPERIMENT_STOPPED")
            /\ thr' = [t \in Threads |->
                         [notify_all(thr[t]) EXCEPT
                            !.stopped = @ \/ thr[t].pc \notin {"none", "done"}]]
            /\ UNCHANGED loaded_program_
    /\ UNCHANGED <<l0, l1, smvars, hvars, loads, pause_requested_, execution_thread_,
                   mutex_, crashed, lastprim>>

PauseExperiment ==
    /\ Handler
    /\ state_ = "RUNNING"
    /\ pause_requested_' = TRUE
    /\ state_' = "PAUSED"
    /\ EmitEvent("EXPERIMENT_PAUSED")
    /\ UNCHANGED <<l0, l1, smvars, hvars, loaded_program_, loads, stop_requested_,
                   execution_thread_, mutex_, crashed, thr, lastprim>>

ResumeExperiment ==
    /\ Handler
    /\ state_ = "PAUSED"
    /\ pause_requested_' = FALSE
    /\ state_' = "RUNNING"
    /\ thr' = [t \in Threads |-> notify_all(thr[t])]
    /\ EmitEvent("EXPERIMENT_RESUMED")
    /\ UNCHANGED <<l0, l1, smvars, hvars, loaded_program_, loads, stop_requested_,
                   execution_thread_, mutex_, crashed, lastprim>>

----------------------------------------------------------------------------
(* The executor thread, one action per stretch between shared accesses.      *)

Running(t) == ~crashed /\ thr[t].pc \notin {"none", "done"}

(* execution_thread_func reads loaded_program_->steps(); through a null      *)
(* loaded_program_ the read faults.                                          *)
ThreadFetchProgram ==
    \E t \in Threads :
        /\ Running(t)
        /\ thr[t].pc = "spawned"
        /\ IF loaded_program_.id = 0
           THEN /\ crashed' = TRUE
                /\ UNCHANGED thr
           ELSE /\ thr' = [thr EXCEPT ![t].pc = "loop_head",
                                      ![t].prog = loaded_program_.id,
                                      ![t].steps = loaded_program_.steps,
                                      ![t].ip = 1]
                /\ UNCHANGED crashed
        /\ UNCHANGED <<l0, l1, smvars, hvars, sub, state_, loaded_program_, loads, stop_requested_,
                       pause_requested_, execution_thread_, mutex_, lastprim>>

(* execute_steps: i < steps.size() and check_stop_or_pause(). Once the       *)
(* program object is destroyed, steps.size() is read from freed memory.      *)
ThreadLoopHead ==
    \E t \in Threads, garbage_end \in BOOLEAN :
        /\ Running(t)
        /\ thr[t].pc = "loop_head"
        /\ ~Freed(t) => garbage_end = FALSE
        /\ LET at_end == IF Freed(t) THEN garbage_end
                          ELSE thr[t].ip > Len(thr[t].steps)
           IN  IF at_end
               THEN /\ thr[t].wait = "no"
                    /\ thr' = [thr EXCEPT ![t].pc = "epilogue",
                                           ![t].ev = "-", ![t].ev_paused = FALSE]
               ELSE /\ CheckPasses(t)
                    /\ thr' = [thr EXCEPT ![t].pc =
                                 IF stop_requested_ THEN "epilogue" ELSE "lock_index",
                                           ![t].wait = "no", ![t].ev = "-",
                                           ![t].ev_paused = FALSE]
        /\ lastprim' = NoPrimResult
        /\ UNCHANGED <<l0, l1, smvars, hvars, sub, state_, loaded_program_, loads, stop_requested_,
                       pause_requested_, execution_thread_, mutex_, crashed>>

(* execute_steps: current_step_index_ = i under mutex_ *)
ThreadLockIndex ==
    \E t \in Threads :
        /\ Running(t)
        /\ thr[t].pc = "lock_index"
        /\ mutex_ = "free"
        /\ thr' = [thr EXCEPT ![t].pc = "dispatch"]
        /\ UNCHANGED <<l0, l1, smvars, hvars, sub, state_, loaded_program_, loads, stop_requested_,
                       pause_requested_, execution_thread_, mutex_, crashed, lastprim>>

(* execute_step: the switch on step.action_case(), up to the first shared    *)
(* access of the chosen action. A step read from freed memory may have any   *)
(* action_case.                                                              *)
ThreadDispatch ==
    \E t \in Threads, kind \in StepKinds, target \in L0States, repeat \in 0..MaxRepeat :
        /\ Running(t)
        /\ thr[t].pc = "dispatch"
        /\ ~Freed(t) => (thr[t].ip <= Len(thr[t].steps) /\ kind = thr[t].steps[thr[t].ip])
        /\ kind # "set_state" => target = "INITIAL"
        /\ kind # "wash" => repeat = 0
        /\ CASE kind \in PrimitiveKinds ->
                  LET b == prim_begin(Now, "service", kind, TRUE, repeat)
                  IN  /\ SetMachines(b.s)
                      /\ thr' = [thr EXCEPT ![t].pc = "in_step", ![t].prim = b.prim]
             [] kind = "wait" ->
                  /\ thr' = [thr EXCEPT ![t].pc = "in_wait"]
                  /\ UNCHANGED <<l0, l1>>
             [] kind = "set_state" ->
                  /\ SetMachines(transition_to(Now, target, FALSE, "proceeds").s)
                  /\ thr' = [thr EXCEPT ![t].pc = "loop_head", ![t].ip = @ + 1,
                                         ![t].ev = "STEP_COMPLETED",
                                         ![t].ev_paused = (state_ = "PAUSED")]
        /\ UNCHANGED <<smvars, hvars, sub, state_, loaded_program_, loads, stop_requested_,
                       pause_requested_, execution_thread_, mutex_, crashed, lastprim>>

(* execute_wait returns (time elapsed, sensor wait over, or stop seen) or    *)
(* throws.                                                                   *)
ThreadWaitDone ==
    \E t \in Threads, throws \in BOOLEAN :
        /\ Running(t)
        /\ thr[t].pc = "in_wait"
        /\ Awake(t)
        /\ thr' = [thr EXCEPT ![t] =
                     IF throws THEN [@ EXCEPT !.pc = "epilogue", !.err = TRUE,
                                              !.wait = "no"]
                     ELSE [@ EXCEPT !.pc = "loop_head", !.ip = @ + 1, !.wait = "no",
                                    !.ev = "STEP_COMPLETED",
                                    !.ev_paused = (state_ = "PAUSED")]]
        /\ UNCHANGED <<l0, l1, smvars, hvars, sub, state_, loaded_program_, loads, stop_requested_,
                       pause_requested_, execution_thread_, mutex_, crashed, lastprim>>

(* wait_if_paused: pause_mutex_ taken and the predicate of pause_cv_.wait    *)
(* found false.                                                              *)
ThreadPauseWait ==
    \E t \in Threads :
        /\ Running(t)
        /\ AtCheck(t)
        /\ thr[t].wait = "no"
        /\ ~CheckReturns
        /\ thr' = [thr EXCEPT ![t].wait = "pred_false"]
        /\ UNCHANGED <<l0, l1, smvars, hvars, sub, state_, loaded_program_, loads, stop_requested_,
                       pause_requested_, execution_thread_, mutex_, crashed, lastprim>>

(* pause_cv_.wait releases pause_mutex_ and blocks. *)
ThreadPauseBlock ==
    \E t \in Threads :
        /\ Running(t)
        /\ thr[t].wait = "pred_false"
        /\ thr' = [thr EXCEPT ![t].wait = "blocked"]
        /\ UNCHANGED <<l0, l1, smvars, hvars, sub, state_, loaded_program_, loads, stop_requested_,
                       pause_requested_, execution_thread_, mutex_, crashed, lastprim>>

(* A woken thread evaluates the predicate again. *)
ThreadPauseWake ==
    \E t \in Threads :
        /\ Running(t)
        /\ thr[t].wait = "woken"
        /\ thr' = [thr EXCEPT ![t].wait = IF CheckReturns THEN "passed" ELSE "pred_false"]
        /\ UNCHANGED <<l0, l1, smvars, hvars, sub, state_, loaded_program_, loads, stop_requested_,
                       pause_requested_, execution_thread_, mutex_, crashed, lastprim>>

(* std::condition_variable::wait may return without a notification. *)
ThreadSpuriousWake ==
    \E t \in Threads :
        /\ Running(t)
        /\ thr[t].wait = "blocked"
        /\ thr' = [thr EXCEPT ![t].wait = "woken"]
        /\ UNCHANGED <<l0, l1, smvars, hvars, sub, state_, loaded_program_, loads, stop_requested_,
                       pause_requested_, execution_thread_, mutex_, crashed, lastprim>>

(* A read through the destroyed program object faults. *)
ThreadUseAfterFree ==
    \E t \in Threads :
        /\ Running(t)
        /\ Freed(t)
        /\ crashed' = TRUE
        /\ UNCHANGED <<l0, l1, smvars, hvars, sub, state_, loaded_program_, loads, stop_requested_,
                       pause_requested_, execution_thread_, mutex_, thr, lastprim>>

(* Variant of the thread function's ending that does not look at the stop   *)
(* flag.                                                                     *)
execution_thread_end_ignoring_stop(err, was_stopped) ==
    IF err THEN "ERROR" ELSE "COMPLETED"

(* The state_ written when execute_steps has returned (was_stopped =          *)
(* stop_requested_) or thrown (err).                                         *)
execution_thread_end(err, was_stopped) ==
    IF err THEN "ERROR"
    ELSE IF was_stopped THEN "ABORTED" ELSE "COMPLETED"

(* The event emitted with that state: none for an aborted run. *)
execution_thread_event(end) ==
    CASE end = "ERROR" -> "EXPERIMENT_ERROR"
      [] end = "COMPLETED" -> "EXPERIMENT_COMPLETED"
      [] end = "ABORTED" -> "-"

(* execution_thread_func after execute_steps: state_ under mutex_ *)
ThreadEpilogue ==
    \E t \in Threads :
        /\ Running(t)
        /\ thr[t].pc = "epilogue"
        /\ mutex_ = "free"
        /\ state_' = execution_thread_end(thr[t].err, stop_requested_)
        /\ thr' = [thr EXCEPT ![t].pc = "restore",
                               ![t].end_state = state_',
                               ![t].ev = execution_thread_event(state_'),
                               ![t].ev_paused = FALSE]
        /\ lastprim' = NoPrimResult
        /\ UNCHANGED <<l0, l1, smvars, hvars, sub, loaded_program_, loads, stop_requested_,
                       pause_requested_, execution_thread_, mutex_, crashed>>

(* The closing transition_to(INITIAL); the thread function then returns. *)
ThreadRestore ==
    \E t \in Threads :
        /\ Running(t)
        /\ thr[t].pc = "restore"
        /\ LET r == execution_thread_restore(Now)
           IN  /\ SetMachines(r.s)
               /\ thr' = [thr EXCEPT ![t].pc = "done", ![t].end_l0 = r.s.l0]
        /\ UNCHANGED <<smvars, hvars, sub, state_, loaded_program_, loads, stop_requested_,
                       pause_requested_, execution_thread_, mutex_, crashed, lastprim>>

Next ==
    \/ LoadProgram
    \/ StartExperimentSpawn
    \/ StartExperimentAssign
    \/ StopExperiment
    \/ PauseExperiment
    \/ ResumeExperiment
    \/ ControlRpc
    \/ ThreadFetchProgram
    \/ ThreadLoopHead
    \/ ThreadLockIndex
    \/ ThreadDispatch
    \/ ThreadWaitDone
    \/ ThreadPauseWait
    \/ ThreadPauseBlock
    \/ ThreadPauseWake
    \/ ThreadSpuriousWake
    \/ ThreadUseAfterFree
    \/ ThreadEpilogue
    \/ ThreadRestore
    \/ PrimFinish
    \/ PrimCancel
    \/ PrimThrow
    \/ PrimWashStep

Spec == Init /\ [][Next]_vars

(* The steps an executor thread takes by itself whenever it is runnable.     *)
(* A spurious wakeup, an exception and a fault may happen but nothing makes  *)
(* them happen.                                                              *)
ThreadProgress ==
    \/ ThreadFetchProgram
    \/ ThreadLoopHead
    \/ ThreadLockIndex
    \/ ThreadDispatch
    \/ ThreadWaitDone
    \/ ThreadPauseWait
    \/ ThreadPauseBlock
    \/ ThreadPauseWake
    \/ ThreadEpilogue
    \/ ThreadRestore
    \/ PrimFinish
    \/ PrimCancel
    \/ PrimWashStep

(* The orchestrator under a scheduler that keeps running a runnable executor *)
(* thread and lets a handler that holds mutex_ finish. Nothing obliges a     *)
(* client to call an RPC.                                                    *)
SpecLive ==
    /\ Init
    /\ [][Next]_vars
    /\ WF_vars(ThreadProgress)
    /\ WF_vars(StartExperimentAssign)

----------------------------------------------------------------------------
(* ExperimentValidator: the forward simulation of a program against its     *)
(* hardware envelope. Volumes are whole millilitres. A step is an inject of  *)
(* one component with ratio 1, a drain, or a loop over injects and drains.   *)

MaxBody == 3

Inject(volume, liquid_id) == [action |-> "inject", volume |-> volume, liquid_id |-> liquid_id]

Drain == [action |-> "drain"]

Loop(count, steps) == [action |-> "loop", count |-> count, steps |-> steps]

(* The steps tried: 1 or 5 ml of liquid A, 5 ml of liquid B, 1 ml of a       *)
(* liquid the envelope does not list, a drain.                               *)
PlainSteps == {Inject(1, "A"), Inject(5, "A"), Inject(5, "B"), Inject(1, "X"), Drain}

LoopSteps ==
    {Loop(count, body) : count \in {0, 2},
                         body \in UNION {[1..n -> PlainSteps] : n \in 1..MaxBody}}

(* The programs tried: at most one step, a loop, at most one step. *)
ProgramInputs ==
    LET around == {<<>>, <<Inject(5, "A")>>, <<Drain>>}
    IN  {pre \o <<loop>> \o post : pre \in around, loop \in LoopSteps, post \in around}
        \cup {<<a>> : a \in PlainSteps} \cup {<<Loop(2, <<>>)>>}

(* The envelopes tried: hardware.liquids() as a sequence of inventories. *)
HardwareInputs ==
    {[max_fill_ml |-> mf, bottle_capacity_ml |-> 8,
      liquids |-> <<[id |-> "A", pump_index |-> 2, available_ml |-> av],
                    [id |-> "B", pump_index |-> pb, available_ml |-> 20]>>] :
        mf \in {5, 10}, av \in {6, 20}, pb \in {2, 3}}

(* build_liquid_map followed by find_liquid: the first inventory with the id, *)
(* or 0 when there is none.                                                   *)
find_liquid(liquids, liquid_id) ==
    LET hits == {i \in 1..Len(liquids) : liquids[i].id = liquid_id}
    IN  IF hits = {} THEN 0 ELSE CHOOSE i \in hits : \A j \in hits : i <= j

validate_hardware_constraints(liquids) ==
    IF \E i, j \in 1..Len(liquids) :
            i < j /\ liquids[i].pump_index = liquids[j].pump_index
    THEN {"DUPLICATE_PUMP_INDEX"}
    ELSE {}

Max(a, b) == IF a >= b THEN a ELSE b

(* validate_inject_action and calculate_inject_resources. *)
validate_inject(v, liquids, step) ==
    LET liquid == find_liquid(liquids, step.liquid_id)
        level == v.current_liquid_level_ + step.volume
    IN  [errors |-> v.errors \cup (IF liquid = 0 THEN {"UNKNOWN_LIQUID"} ELSE {}),
         current_liquid_level_ |-> level,
         peak_liquid_level_ |-> Max(v.peak_liquid_level_, level),
         pump_totals_ |->
            IF liquid = 0 THEN v.pump_totals_
            ELSE [v.pump_totals_ EXCEPT ![liquids[liquid].pump_index] = @ + step.volume]]

(* validate_drain_action (warnings only) and calculate_drain_resources. *)
validate_drain(v) == [v EXCEPT !.current_liquid_level_ = 0]

(* validate_loop_action after the body has been walked once: the deltas of   *)
(* that one walk, times count, on top of the saved values.                   *)
apply_loop_count(saved, once, count) ==
    LET level == saved.current_liquid_level_
                 + (once.current_liquid_level_ - saved.current_liquid_level_) * count
    IN  [errors |-> once.errors,
         current_liquid_level_ |-> level,
         peak_liquid_level_ |-> Max(once.peak_liquid_level_, level),
         pump_totals_ |->
            [i \in 0..7 |-> saved.pump_totals_[i]
                            + (once.pump_totals_[i] - saved.pump_totals_[i]) * count]]

RECURSIVE validate_steps(_, _, _)

validate_step(v, liquids, step) ==
    CASE step.action = "inject" -> validate_inject(v, liquids, step)
      [] step.action = "drain" -> validate_drain(v)
      [] step.action = "loop" ->
            IF Len(step.steps) = 0
            THEN [v EXCEPT !.errors = @ \cup {"EMPTY_LOOP"}]
            ELSE apply_loop_count(v, validate_steps(v, liquids, step.steps), step.count)

validate_steps(v, liquids, steps) ==
    IF steps = <<>> THEN v
    ELSE validate_steps(validate_step(v, liquids, Head(steps)), liquids, Tail(steps))

check_overflow_risk(v, hw) ==
    (IF v.peak_liquid_level_ > hw.max_fill_ml THEN {"OVERFLOW_RISK"} ELSE {})
    \cup (IF v.peak_liquid_level_ > hw.bottle_capacity_ml THEN {"CAPACITY_EXCEEDED"} ELSE {})

check_liquid_sufficiency(v, hw) ==
    IF \E i \in 1..Len(hw.liquids) :
            /\ find_liquid(hw.liquids, hw.liquids[i].id) = i
            /\ v.pump_totals_[hw.liquids[i].pump_index] > hw.liquids[i].available_ml
    THEN {"INSUFFICIENT_LIQUID"}
    ELSE {}

(* ExperimentValidator::validate. *)
validate(program, hw) ==
    LET v == validate_steps(
                [ValidatorReset EXCEPT !.errors = validate_hardware_constraints(hw.liquids)],
                hw.liquids, program)
        errors == v.errors \cup check_overflow_risk(v, hw) \cup check_liquid_sufficiency(v, hw)
    IN  [called |-> TRUE, program |-> program, max_fill_ml |-> hw.max_fill_ml,
         bottle_capacity_ml |-> hw.bottle_capacity_ml, liquids |-> hw.liquids,
         valid |-> (errors = {}), errors |-> errors,
         peak_liquid_level_ml |-> v.peak_liquid_level_,
         pump_consumption_ml |-> v.pump_totals_]

(* One validate() on a freshly constructed validator. *)
Validate ==
    /\ ~validation.called
    /\ \E program \in ProgramInputs, hw \in HardwareInputs :
            validation' = validate(program, hw)
    /\ UNCHANGED <<l0, l1, smvars, ovars, xvars, ew, lc, sq, inj, sub>>

SpecValidate == Init /\ [][Validate]_vars


----------------------------------------------------------------------------
(* LoadCellDriver::wait_for_empty_bottle. One turn of its loop is one step;  *)
(* the turn reads status_.filtered_weight and status_.is_stable, which the   *)
(* I/O thread keeps rewriting, and then sleeps 500 ms, so that after n turns *)
(* at least n * 500 ms have elapsed. Weights are tenths of a gram.           *)

MaxEmptyTurns == 6

(* The filtered weights read: 0.0 g, 0.4 g, 0.8 g. *)
Weights == {0, 4, 8}

Abs(x) == IF x < 0 THEN -x ELSE x

(* Variant of the entry that forgets the dynamic empty-bottle value. *)
wait_for_empty_bottle_begin_clearing(e, tolerance, timeout_sec, stability_window_sec) ==
    [NoEmptyWait EXCEPT
        !.pc = "loop",
        !.tolerance = tolerance,
        !.timeout_sec = timeout_sec,
        !.stability_window_sec = stability_window_sec,
        !.reference_weight = e.dynamic_empty_weight_.value,
        !.before = e.dynamic_empty_weight_]

(* Entry of wait_for_empty_bottle, up to the loop. before, window_min and    *)
(* window_max do not exist in the code: the value of dynamic_empty_weight_   *)
(* at the call, and the extremes read since window_start_time was last set.  *)
wait_for_empty_bottle_begin(e, tolerance, timeout_sec, stability_window_sec) ==
    [NoEmptyWait EXCEPT
        !.dynamic_empty_weight_ = e.dynamic_empty_weight_,
        !.pc = "loop",
        !.tolerance = tolerance,
        !.timeout_sec = timeout_sec,
        !.stability_window_sec = stability_window_sec,
        !.reference_weight = e.dynamic_empty_weight_.value,
        !.before = e.dynamic_empty_weight_]

(* One turn of the loop of wait_for_empty_bottle. *)
wait_for_empty_bottle_turn(e, current_weight, is_stable) ==
    LET is_near_reference ==
            \/ e.reference_weight = 0
            \/ Abs(current_weight - e.reference_weight) <= e.tolerance
        found == [e EXCEPT !.pc = "returned", !.success = TRUE,
                           !.dynamic_empty_weight_ = Some(current_weight),
                           !.empty_weight = current_weight,
                           !.window_min = IF e.window_start_time.has_value /\ @ < current_weight
                                          THEN @ ELSE current_weight,
                           !.window_max = IF e.window_start_time.has_value /\ @ > current_weight
                                          THEN @ ELSE current_weight]
        slept == [e EXCEPT !.last_weight = current_weight, !.elapsed = @ + 1]
        restart == [slept EXCEPT !.stable_count = 0, !.window_start_time = Nullopt]
        counted == [slept EXCEPT !.stable_count = @ + 1]
        opened == [counted EXCEPT !.window_start_time = Some(e.elapsed),
                                  !.stable_weight = current_weight,
                                  !.window_min = current_weight,
                                  !.window_max = current_weight]
    IN  IF e.elapsed >= e.timeout_sec
        THEN [e EXCEPT !.pc = "returned", !.success = FALSE]
        ELSE IF ~(is_near_reference /\ is_stable) THEN restart
        ELSE IF ~(Abs(current_weight - e.last_weight) < 10) THEN restart
        ELSE IF e.stable_count + 1 < 3 THEN counted
        ELSE IF e.stability_window_sec <= 0 THEN found
        ELSE IF ~e.window_start_time.has_value THEN opened
        ELSE IF Abs(current_weight - e.stable_weight) >= 5 THEN opened
        ELSE IF e.elapsed - e.window_start_time.value >= e.stability_window_sec THEN found
        ELSE [counted EXCEPT !.window_min = IF @ < current_weight THEN @ ELSE current_weight,
                             !.window_max = IF @ > current_weight THEN @ ELSE current_weight]

WaitForEmptyBottle ==
    \E stability_window_sec \in {0, 2} :
        /\ ew.pc # "loop"
        /\ ew' = wait_for_empty_bottle_begin(ew, 5, MaxEmptyTurns, stability_window_sec)
        /\ UNCHANGED <<l0, l1, smvars, ovars, xvars, validation, lc, sq, inj, sub>>

EmptyBottleTurn ==
    \E current_weight \in Weights, is_stable \in BOOLEAN :
        /\ ew.pc = "loop"
        /\ ew' = wait_for_empty_bottle_turn(ew, current_weight, is_stable)
        /\ UNCHANGED <<l0, l1, smvars, ovars, xvars, validation, lc, sq, inj, sub>>

(* LoadCellDriver::reset_dynamic_empty_weight, called between two waits. *)
ResetDynamicEmptyWeight ==
    /\ ew.pc # "loop"
    /\ ew.dynamic_empty_weight_.has_value
    /\ ew' = [NoEmptyWait EXCEPT !.pc = ew.pc]
    /\ UNCHANGED <<l0, l1, smvars, ovars, xvars, validation, lc, sq, inj, sub>>

NextEmpty ==
    \/ WaitForEmptyBottle
    \/ EmptyBottleTurn
    \/ ResetDynamicEmptyWeight

SpecEmpty == Init /\ [][NextEmpty]_vars

----------------------------------------------------------------------------
(* LoadCellDriver: the drain-complete detector and the calibration wizard.   *)

(* config_.drain_stable_duration, in seconds. *)
DrainStableDuration == 2

(* config_.trend_threshold, in tenths of a gram. *)
TrendThreshold == 50

Min(a, b) == IF a <= b THEN a ELSE b

(* Variant of check_drain_complete without the drain_complete_fired_ test. *)
check_drain_complete_refiring(d, steady, filtered_weight, dt) ==
    LET duration == IF d.was_stable_ THEN Min(d.stable_duration + dt, DrainStableDuration)
                    ELSE 0
        fire == /\ duration >= DrainStableDuration
                /\ Abs(filtered_weight - d.last_trend_weight_) < TrendThreshold
    IN  IF steady
        THEN [d EXCEPT !.was_stable_ = TRUE,
                       !.stable_duration = duration,
                       !.drain_complete_fired_ = (d.was_stable_ /\ @) \/ fire,
                       !.last_trend_weight_ = IF fire THEN filtered_weight ELSE @,
                       !.fires = IF fire THEN Min(@ + 1, 2) ELSE @,
                       !.later = IF fire THEN 0 ELSE IF d.fires > 0 THEN 1 ELSE 0]
        ELSE [d EXCEPT !.was_stable_ = FALSE,
                       !.stable_duration = 0,
                       !.drain_complete_fired_ = FALSE,
                       !.last_trend_weight_ = filtered_weight,
                       !.fires = 0,
                       !.later = 0]

(* LoadCellDriver::check_drain_complete. steady: status_.is_stable and       *)
(* status_.trend == STABLE; dt: the seconds since the sample before.         *)
(* stable_duration is now - stable_since_, kept up to the configured         *)
(* duration, beyond which the code does not tell values apart.               *)
check_drain_complete(d, steady, filtered_weight, dt) ==
    LET duration == IF d.was_stable_ THEN Min(d.stable_duration + dt, DrainStableDuration)
                    ELSE 0
        fired == d.was_stable_ /\ d.drain_complete_fired_
        fire == /\ duration >= DrainStableDuration
                /\ ~fired
                /\ Abs(filtered_weight - d.last_trend_weight_) < TrendThreshold
    IN  IF steady
        THEN [d EXCEPT !.was_stable_ = TRUE,
                       !.stable_duration = duration,
                       !.drain_complete_fired_ = fired \/ fire,
                       !.last_trend_weight_ = IF fire THEN filtered_weight ELSE @,
                       !.fires = IF fire THEN Min(@ + 1, 2) ELSE @,
                       !.later = IF fire THEN 0 ELSE IF d.fires > 0 THEN 1 ELSE 0]
        ELSE [d EXCEPT !.was_stable_ = FALSE,
                       !.stable_duration = 0,
                       !.drain_complete_fired_ = FALSE,
                       !.last_trend_weight_ = filtered_weight,
                       !.fires = 0,
                       !.later = 0]

(* on_klipper_status with a force_g reading: the filter and the statistics   *)
(* give the filtered weight (0.0 g or 6.0 g here) and the stability flags.   *)
KlipperStatus ==
    \E steady \in BOOLEAN, filtered_weight \in {0, 60}, dt \in {0, 1} :
        /\ lc' = check_drain_complete(lc, steady, filtered_weight, dt)
        /\ UNCHANGED <<l0, l1, smvars, ovars, xvars, validation, ew, sq, inj, sub>>

CalibrationMethods ==
    {"start_calibration", "set_zero_point", "set_reference_weight",
     "save_calibration", "cancel_calibration"}

(* The values a calibration method assigns to calibration_step_, in order,   *)
(* when called in the given step.                                             *)
calibration(step, method) ==
    CASE method = "start_calibration" -> <<"ZERO_POINT">>
      [] method = "set_zero_point" ->
            IF step # "ZERO_POINT" THEN <<>> ELSE <<"REFERENCE_WEIGHT">>
      [] method = "set_reference_weight" ->
            IF step # "REFERENCE_WEIGHT" THEN <<>> ELSE <<"VERIFY">>
      [] method = "save_calibration" ->
            IF step # "VERIFY" THEN <<>> ELSE <<"COMPLETE", "IDLE">>
      [] method = "cancel_calibration" ->
            IF step = "IDLE" THEN <<>> ELSE <<"IDLE">>

CalibrationCall ==
    \E method \in CalibrationMethods :
        LET path == calibration(lc.calibration_step_, method)
        IN  /\ lc' = [lc EXCEPT !.call = method,
                                !.from = lc.calibration_step_,
                                !.path = path,
                                !.calibration_step_ =
                                    IF path = <<>> THEN @ ELSE path[Len(path)]]
            /\ UNCHANGED <<l0, l1, smvars, ovars, xvars, validation, ew, sq, inj, sub>>

NextLoadCell ==
    \/ KlipperStatus
    \/ CalibrationCall

SpecLoadCell == Init /\ [][NextLoadCell]_vars

----------------------------------------------------------------------------
(* The inject primitive: the distance given to each pump and the consumable  *)
(* records written when it ends. Distances are millimetres, ratios percent.  *)

(* distance_mm = target_volume_ml * ratio * 1000 *)
volume_mm(total_volume, ratio) == total_volume * ratio * 10

(* ExperimentServiceImpl::execute_inject: each component goes to the pump of *)
(* the first liquid of loaded_program_->hardware() with its id; the switch   *)
(* has the cases 2, 3, 4 and 5.                                               *)
RECURSIVE execute_inject_params(_, _, _, _)
execute_inject_params(params, total_volume, components, liquids) ==
    IF components = <<>> THEN params
    ELSE LET comp == Head(components)
             liquid == find_liquid(liquids, comp.liquid_id)
             assigned ==
                IF liquid # 0 /\ liquids[liquid].pump_index \in 2..5
                THEN [params EXCEPT ![liquids[liquid].pump_index] =
                                        volume_mm(total_volume, comp.ratio)]
                ELSE params
         IN  execute_inject_params(assigned, total_volume, Tail(components), liquids)

(* InjectExecutor::execute: component i goes to pump 2 + i, for i < 4. *)
InjectExecutor_params(total_volume, components) ==
    [p \in 0..7 |->
        IF p - 1 \in 1..Len(components) /\ p - 2 < 4
        THEN volume_mm(total_volume, components[p - 1].ratio)
        ELSE 0]

(* The add_pump_consumption / consumable_callback_ calls at the end of the   *)
(* primitive, in order: pump and millilitres (0.1 ml per mm).                *)
RECURSIVE consumable_records(_, _, _, _)
consumable_records(params, inject_seconds, sink, pump) ==
    IF pump > 7 \/ ~(sink /\ inject_seconds > 0) THEN <<>>
    ELSE (IF params[pump] > 0
          THEN <<[pump |-> pump, ml |-> params[pump] \div 10]>>
          ELSE <<>>) \o consumable_records(params, inject_seconds, sink, pump + 1)

(* The hardware envelopes tried: liquids A and B on two pumps. *)
InjectLiquids ==
    {<<[id |-> "A", pump_index |-> pa, available_ml |-> 20],
       [id |-> "B", pump_index |-> pb, available_ml |-> 20]>> :
        pa \in {0, 2, 5}, pb \in {3, 7}}

(* The recipes tried: one liquid, or both in equal parts. *)
InjectComponents ==
    {<<[liquid_id |-> "A", ratio |-> 100]>>, <<[liquid_id |-> "B", ratio |-> 100]>>,
     <<[liquid_id |-> "A", ratio |-> 50], [liquid_id |-> "B", ratio |-> 50]>>,
     <<[liquid_id |-> "B", ratio |-> 50], [liquid_id |-> "A", ratio |-> 50]>>}

(* One inject of 5 ml from start_inject to commit_and_restore. exit: how the *)
(* feedback loop was left; inject_seconds: its duration in whole seconds;    *)
(* sink: consumable_repo_ / consumable_callback_ is set.                     *)
InjectRun ==
    /\ ~inj.ran
    /\ \E variant \in {"service", "executor"}, components \in InjectComponents,
          liquids \in InjectLiquids, exit \in {"success", "timeout", "cancel"},
          inject_seconds \in 0..2, sink \in BOOLEAN :
            LET params == IF variant = "service"
                          THEN execute_inject_params(NoInjectionParams, 5, components, liquids)
                          ELSE InjectExecutor_params(5, components)
            IN  inj' = [ran |-> TRUE, variant |-> variant, components |-> components,
                        liquids |-> liquids, params |-> params, exit |-> exit,
                        inject_seconds |-> inject_seconds, sink |-> sink,
                        consumption |-> consumable_records(params, inject_seconds, sink, 0)]
    /\ UNCHANGED <<l0, l1, smvars, ovars, xvars, validation, ew, lc, sq, sub>>

SpecInject == Init /\ [][InjectRun]_vars

----------------------------------------------------------------------------
(* ExperimentServiceImpl::SubscribeExperimentEvents, one gRPC thread per     *)
(* subscription, beside the handlers that emit events.                       *)

SubscribeExperimentEvents ==
    \E s \in Subscribers :
        /\ ~crashed
        /\ sub.subscription[s].pc = "none"
        /\ \A u \in Subscribers : u < s => sub.subscription[u].pc # "none"
        /\ sub' = [sub EXCEPT !.subscriber_count_ = @ + 1,
                              !.subscription[s].pc = "loop",
                              !.subscription[s].since = sub.emitted]
        /\ UNCHANGED <<l0, l1, smvars, ovars, hvars>>

(* The end of a subscription: subscriber_count_-- and return. *)
subscription_end(q, s, why) ==
    [q EXCEPT !.subscriber_count_ = @ - 1,
              !.subscription[s].pc = "done",
              !.subscription[s].ended_by = why]

(* One turn of the subscription loop: the test of IsCancelled, the wait of   *)
(* at most one second on event_cv_, and what follows it. written: the        *)
(* writer->Write of the event succeeds; it fails when the caller has gone.   *)
SubscriptionTurn ==
    \E s \in Subscribers, written \in BOOLEAN :
        /\ ~crashed
        /\ sub.subscription[s].pc = "loop"
        /\ sub' =
             IF sub.subscription[s].cancelled
             THEN subscription_end(sub, s, "cancelled")
             ELSE IF stop_requested_ /\ sub.event_queue_ = <<>>
             THEN subscription_end(sub, s, "stop_requested_")
             ELSE IF sub.event_queue_ = <<>>
             THEN sub
             ELSE LET popped == [sub EXCEPT !.event_queue_ = Tail(@)]
                  IN  IF written
                      THEN [popped EXCEPT !.subscription[s].received =
                                              Append(@, Head(sub.event_queue_))]
                      ELSE subscription_end(
                               [popped EXCEPT !.subscription[s].cancelled = TRUE],
                               s, "write_failed")
        /\ UNCHANGED <<l0, l1, smvars, ovars, hvars>>

(* The caller of a subscription disconnects: context->IsCancelled() is true  *)
(* from now on.                                                               *)
SubscriberDisconnects ==
    \E s \in Subscribers :
        /\ sub.subscription[s].pc = "loop"
        /\ ~sub.subscription[s].cancelled
        /\ sub' = [sub EXCEPT !.subscription[s].cancelled = TRUE]
        /\ UNCHANGED <<l0, l1, smvars, ovars, hvars>>

(* The handlers with their events and the subscriptions; the executor thread *)
(* is started and stopped but not followed through its steps.                *)
NextEvents ==
    \/ LoadProgram
    \/ StartExperimentSpawn
    \/ StartExperimentAssign
    \/ StopExperiment
    \/ PauseExperiment
    \/ ResumeExperiment
    \/ SubscribeExperimentEvents
    \/ SubscriptionTurn
    \/ SubscriberDisconnects

SpecEvents == Init /\ [][NextEvents]_vars

----------------------------------------------------------------------------
(* ActuatorDriver: the send queue of the connection to the firmware host.    *)
(* Every handler runs on the thread of io_. A message is [id, gcode]: its    *)
(* rpc id and, for a command of send_gcode, the number of the submission     *)
(* (0 for the messages the driver sends by itself).                          *)

(* ActuatorDriver::do_write: starts the write of the front message. *)
do_write(q) ==
    IF q.send_queue_ = <<>> THEN q ELSE [q EXCEPT !.writing = TRUE]

(* The end of subscribe_objects, query_printer_info and of the handler of    *)
(* send_gcode: push, and start writing if the message is alone in the queue. *)
push_message(q, gcode) ==
    LET pushed == [q EXCEPT !.send_queue_ = Append(@, [id |-> q.rpc_id_, gcode |-> gcode]),
                            !.rpc_id_ = @ + 1]
    IN  IF Len(pushed.send_queue_) = 1 THEN do_write(pushed) ELSE pushed

(* ActuatorDriver::on_handshake without error: connected, then the           *)
(* subscription and the first printer.info query are queued.                 *)
OnHandshake ==
    /\ ~sq.handshaken
    /\ sq' = push_message(push_message([sq EXCEPT !.connected_ = TRUE,
                                                  !.handshaken = TRUE], 0), 0)
    /\ UNCHANGED <<l0, l1, smvars, ovars, xvars, validation, ew, lc, inj, sub>>

(* ActuatorDriver::send_gcode: nothing when not connected, otherwise the     *)
(* handler is posted to io_.                                                 *)
SendGcode ==
    /\ sq.submitted < MaxCommands
    /\ sq' = IF ~sq.connected_
             THEN [sq EXCEPT !.submitted = @ + 1]
             ELSE [sq EXCEPT !.submitted = @ + 1,
                             !.posted = Append(@, sq.submitted + 1)]
    /\ UNCHANGED <<l0, l1, smvars, ovars, xvars, validation, ew, lc, inj, sub>>

(* The handler send_gcode posted runs. *)
SendGcodePosted ==
    /\ sq.posted # <<>>
    /\ sq' = push_message([sq EXCEPT !.posted = Tail(@)], Head(sq.posted))
    /\ UNCHANGED <<l0, l1, smvars, ovars, xvars, validation, ew, lc, inj, sub>>

(* The completion handler of async_write in do_write; ec: the write failed.  *)
write_complete(q, ec) ==
    IF ec
    THEN [q EXCEPT !.writing = FALSE,
                   !.failed = @ \cup {Head(q.send_queue_)}]
    ELSE LET popped == [q EXCEPT !.writing = FALSE,
                                 !.written = Append(@, Head(q.send_queue_)),
                                 !.send_queue_ = Tail(@)]
         IN  IF popped.send_queue_ # <<>> THEN do_write(popped) ELSE popped

WriteComplete ==
    \E ec \in BOOLEAN :
        /\ sq.writing
        /\ sq' = write_complete(sq, ec)
        /\ UNCHANGED <<l0, l1, smvars, ovars, xvars, validation, ew, lc, inj, sub>>

(* ActuatorDriver::on_read with an error: the connection is taken as lost. *)
OnReadFailed ==
    /\ sq.connected_
    /\ sq' = [sq EXCEPT !.connected_ = FALSE]
    /\ UNCHANGED <<l0, l1, smvars, ovars, xvars, validation, ew, lc, inj, sub>>

NextActuator ==
    \/ OnHandshake
    \/ SendGcode
    \/ SendGcodePosted
    \/ WriteComplete
    \/ OnReadFailed

SpecActuator == Init /\ [][NextActuator]_vars

----------------------------------------------------------------------------
(* ActuatorDriver::on_read: the messages of the firmware host and the flag   *)
(* firmware_ready_. A message is named by its method, or for a response by   *)
(* what it answers: "printer.info:<state>" is the response to the            *)
(* printer.info query with that state ("-": a response without a state).     *)

Messages ==
    {"notify_status_update", "notify_klippy_shutdown", "notify_klippy_ready",
     "printer.info:ready", "printer.info:shutdown", "printer.info:startup",
     "printer.info:-", "result", "error"}

InfoStates == {"printer.info:ready", "printer.info:shutdown", "printer.info:startup"}

(* on_read without the branch of notify_klippy_ready. *)
on_read_ignoring_ready(firmware_ready_, msg) ==
    IF msg = "notify_klippy_shutdown" THEN FALSE
    ELSE IF msg \in InfoStates THEN msg = "printer.info:ready"
    ELSE firmware_ready_

(* The value of firmware_ready_ after on_read has handled msg. *)
on_read(firmware_ready_, msg) ==
    IF msg = "notify_status_update" THEN firmware_ready_
    ELSE IF msg = "notify_klippy_shutdown" THEN FALSE
    ELSE IF msg = "notify_klippy_ready" THEN TRUE
    ELSE IF msg \in InfoStates THEN msg = "printer.info:ready"
    ELSE firmware_ready_

OnRead ==
    /\ Len(fw.log) < MaxMessages
    /\ \E msg \in Messages :
           fw' = [firmware_ready_ |-> on_read(fw.firmware_ready_, msg),
                  log |-> Append(fw.log, msg)]
    /\ UNCHANGED <<l0, l1, smvars, ovars, validation, ew, lc, sq, inj, sub,
                   vr, pg, tc, es>>

SpecFirmware == Init /\ [][OnRead]_vars

----------------------------------------------------------------------------
(* ControlServiceImpl::EmergencyStop and FirmwareRestart beside a running    *)
(* experiment.                                                                *)

(* EmergencyStop: send_gcode("M112"), then system_state_->transition_to(     *)
(* INITIAL). It is followed when it is called during a run.                   *)
EmergencyStopRpc ==
    /\ ~crashed
    /\ ~es.stopped
    /\ \E t \in Threads : Running(t)
    /\ SetMachines(transition_to(Now, "INITIAL", FALSE, "proceeds").s)
    /\ es' = [stopped |-> TRUE, ip |-> [t \in Threads |-> thr[t].ip]]
    /\ UNCHANGED <<smvars, ovars, validation, ew, lc, sq, inj, sub, fw, vr, pg, tc>>

(* FirmwareRestart: send_gcode("FIRMWARE_RESTART"), the explicit recovery. *)
FirmwareRestartRpc ==
    /\ ~crashed
    /\ es.stopped
    /\ es' = NoEs
    /\ UNCHANGED <<l0, l1, smvars, ovars, validation, ew, lc, sq, inj, sub, fw, vr, pg, tc>>

(* The orchestrator with the emergency stop as the only call from outside    *)
(* that moves L0.                                                             *)
NextEstop ==
    \/ LoadProgram
    \/ StartExperimentSpawn
    \/ StartExperimentAssign
    \/ StopExperiment
    \/ PauseExperiment
    \/ ResumeExperiment
    \/ EmergencyStopRpc
    \/ FirmwareRestartRpc
    \/ ThreadFetchProgram
    \/ ThreadLoopHead
    \/ ThreadLockIndex
    \/ ThreadDispatch
    \/ ThreadWaitDone
    \/ ThreadPauseWait
    \/ ThreadPauseBlock
    \/ ThreadPauseWake
    \/ ThreadSpuriousWake
    \/ ThreadUseAfterFree
    \/ ThreadEpilogue
    \/ ThreadRestore
    \/ PrimFinish
    \/ PrimCancel
    \/ PrimThrow
    \/ PrimWashStep

SpecEstop == Init /\ [][NextEstop]_vars

----------------------------------------------------------------------------
(* ExperimentServiceImpl::validator_ under concurrent RPCs. ValidateProgram  *)
(* calls validator_.validate without a lock; LoadProgram calls it under      *)
(* mutex_. validate works on the members of the one validator: the calls of  *)
(* two gRPC threads interleave on them.                                       *)

RacePrograms ==
    {<<Inject(5, "A")>>, <<Inject(5, "A"), Drain>>, <<Inject(1, "X")>>, <<Drain, Inject(1, "A")>>}

RaceEnvelopes ==
    {[max_fill_ml |-> mf, bottle_capacity_ml |-> 8,
      liquids |-> <<[id |-> "A", pump_index |-> 2, available_ml |-> 6]>>] : mf \in {5, 10}}

(* What a read through program_ or liquid_map_ gives: the envelope of the    *)
(* owning call while that call has not returned; afterwards the request is   *)
(* gone and the read gives any envelope.                                      *)
PointedEnvelopes ==
    IF vr.program_.owner # 0 /\ vr.call[vr.program_.owner].pc # "done"
    THEN {vr.program_}
    ELSE {[owner |-> vr.program_.owner, max_fill_ml |-> e.max_fill_ml,
           bottle_capacity_ml |-> e.bottle_capacity_ml, liquids |-> e.liquids] :
              e \in RaceEnvelopes}

(* validate up to validate_steps: reset, program_ = &program,                *)
(* build_liquid_map, validate_hardware_constraints.                           *)
ValidateBegin ==
    \E c \in RpcCalls, rpc \in {"ValidateProgram", "LoadProgram"},
       program \in RacePrograms, e \in RaceEnvelopes :
        /\ vr.call[c].pc = "none"
        /\ \A d \in RpcCalls : d < c => vr.call[d].pc # "none"
        /\ rpc = "LoadProgram" =>
              \A d \in RpcCalls : ~(vr.call[d].rpc = "LoadProgram" /\ vr.call[d].pc # "done")
        /\ LET hw == [owner |-> c, max_fill_ml |-> e.max_fill_ml,
                      bottle_capacity_ml |-> e.bottle_capacity_ml, liquids |-> e.liquids]
           IN  vr' = [vr EXCEPT
                        !.v = [ValidatorReset EXCEPT
                                  !.errors = validate_hardware_constraints(hw.liquids)],
                        !.program_ = hw,
                        !.liquid_map_ = hw.liquids,
                        !.call[c] = [NoValidateCall EXCEPT !.pc = "steps", !.rpc = rpc,
                                                           !.program = program, !.hw = hw]]
        /\ UNCHANGED <<l0, l1, smvars, ovars, validation, ew, lc, sq, inj, sub,
                       fw, pg, tc, es>>

(* validate_steps(program.steps()): the next step of the call's own program, *)
(* on the shared levels, totals and liquid_map_.                              *)
ValidateStep ==
    \E c \in RpcCalls :
        /\ vr.call[c].pc = "steps"
        /\ vr.call[c].ip <= Len(vr.call[c].program)
        /\ \E pointed \in PointedEnvelopes :
              vr' = [vr EXCEPT
                       !.v = validate_step(vr.v,
                                 IF vr.liquid_map_ = <<>> THEN <<>> ELSE pointed.liquids,
                                 vr.call[c].program[vr.call[c].ip]),
                       !.call[c].ip = @ + 1]
        /\ UNCHANGED <<l0, l1, smvars, ovars, validation, ew, lc, sq, inj, sub,
                       fw, pg, tc, es>>

(* The rest of validate: the safety checks through program_, the result      *)
(* built from errors_ (moved out) and the levels, and the return.            *)
validate_result(v, pointed) ==
    LET errors == v.errors \cup check_overflow_risk(v, pointed)
                           \cup check_liquid_sufficiency(v, pointed)
    IN  [valid |-> (errors = {}), errors |-> errors,
         peak_liquid_level_ml |-> v.peak_liquid_level_]

ValidateFinish ==
    \E c \in RpcCalls :
        /\ vr.call[c].pc = "steps"
        /\ vr.call[c].ip > Len(vr.call[c].program)
        /\ \E pointed \in PointedEnvelopes :
              vr' = [vr EXCEPT
                       !.v.errors = {},
                       !.call[c].pc = "done",
                       !.call[c].result = validate_result(vr.v, pointed)]
        /\ UNCHANGED <<l0, l1, smvars, ovars, validation, ew, lc, sq, inj, sub,
                       fw, pg, tc, es>>

NextValidatorRace ==
    \/ ValidateBegin
    \/ ValidateStep
    \/ ValidateFinish

SpecValidatorRace == Init /\ [][NextValidatorRace]_vars

----------------------------------------------------------------------------
(* The position the executor reports while it walks a program with loops:    *)
(* execute_steps, execute_loop and fill_status_response.                     *)

PlainStep == [loop |-> FALSE, count |-> 0, body |-> 0]

LoopStep(count, body) == [loop |-> TRUE, count |-> count, body |-> body]

ProgressSteps ==
    {PlainStep} \cup {LoopStep(count, body) : count \in 1..2, body \in 1..MaxLoopBody}

ProgressPrograms == UNION {[1..n -> ProgressSteps] : n \in 1..2}

(* LoadProgram and StartExperiment: current_step_index_ = 0,                 *)
(* loop_iteration_ = 0, loop_total_ = 0, and the thread enters execute_steps *)
(* on the program's steps.                                                    *)
ProgressStart ==
    /\ pg.pc = "none"
    /\ \E program \in ProgressPrograms :
           pg' = [NoPg EXCEPT !.pc = "steps", !.program = program]
    /\ UNCHANGED <<l0, l1, smvars, ovars, validation, ew, lc, sq, inj, sub,
                   fw, vr, tc, es>>

(* One turn of the for loop of execute_steps on the program's steps: the     *)
(* index is stored, then the step runs; a loop step enters execute_loop.     *)
execute_steps_top(p) ==
    IF p.i >= Len(p.program)
    THEN [p EXCEPT !.pc = "done"]
    ELSE LET step == p.program[p.i + 1]
             at == [p EXCEPT !.current_step_index_ = p.i]
         IN  IF step.loop
             THEN [at EXCEPT !.pc = "loop", !.k = 0, !.loop_total_ = step.count]
             ELSE [at EXCEPT !.i = @ + 1]

(* One turn of the for loop of execute_loop, or its end. *)
execute_loop(p) ==
    LET step == p.program[p.i + 1]
    IN  IF p.k < step.count
        THEN [p EXCEPT !.loop_iteration_ = p.k + 1, !.pc = "body", !.j = 0]
        ELSE [p EXCEPT !.loop_iteration_ = 0, !.loop_total_ = 0, !.pc = "steps",
                       !.i = @ + 1]

(* One turn of the for loop of execute_steps on the steps of the loop body. *)
execute_steps_body(p) ==
    LET step == p.program[p.i + 1]
    IN  IF p.j >= step.body
        THEN [p EXCEPT !.pc = "loop", !.k = @ + 1]
        ELSE [p EXCEPT !.current_step_index_ = p.j, !.j = @ + 1]

ProgressWalk ==
    /\ pg.pc \in {"steps", "loop", "body"}
    /\ pg' = CASE pg.pc = "steps" -> execute_steps_top(pg)
               [] pg.pc = "loop" -> execute_loop(pg)
               [] pg.pc = "body" -> execute_steps_body(pg)
    /\ UNCHANGED <<l0, l1, smvars, ovars, validation, ew, lc, sq, inj, sub,
                   fw, vr, tc, es>>

(* fill_status_response: progress_percent of the snapshot. *)
fill_status_response(p) ==
    IF Len(p.program) > 0
    THEN (p.current_step_index_ * 100) \div Len(p.program)
    ELSE 0

(* GetExperimentStatus, or any other handler that fills a status response. *)
GetStatus ==
    /\ pg.pc # "none"
    /\ pg' = [pg EXCEPT !.progress_percent = fill_status_response(pg)]
    /\ UNCHANGED <<l0, l1, smvars, ovars, validation, ew, lc, sq, inj, sub,
                   fw, vr, tc, es>>

NextProgress ==
    \/ ProgressStart
    \/ ProgressWalk
    \/ GetStatus

SpecProgress == Init /\ [][NextProgress]_vars

----------------------------------------------------------------------------
(* TestController: start_test, stop_test and the test thread. The sections   *)
(* under std::lock_guard of the thread and of stop_test are single steps;    *)
(* start_test holds mutex_ over the join of the previous thread.             *)

TestRestartable == {"IDLE", "COMPLETE", "ERROR"}

(* start_test. config_ok: the config has a param set with cycles > 0. The    *)
(* call returns false on a running test or a bad config; otherwise it resets *)
(* the run, joins test_thread_ if it is joinable, and creates the thread.    *)
start_test(t, config_ok, cycles) ==
    IF t.state_ \notin TestRestartable \/ ~config_ok
    THEN [t EXCEPT !.returned = "false", !.starts = @ + 1]
    ELSE LET reset == [t EXCEPT !.stop_requested_ = FALSE, !.left = cycles,
                                !.starts = @ + 1, !.returned = "-"]
         IN  IF t.thread \notin {"none", "finished"}
             THEN [reset EXCEPT !.joining = TRUE, !.mutex_ = "start_test"]
             ELSE [reset EXCEPT !.thread = "spawned", !.returned = "true"]

StartTest ==
    /\ tc.mutex_ = "free"
    /\ ~tc.joining
    /\ tc.starts < MaxStarts
    /\ \E config_ok \in BOOLEAN, cycles \in 1..MaxCycles :
           tc' = start_test(tc, config_ok, cycles)
    /\ UNCHANGED <<l0, l1, smvars, ovars, validation, ew, lc, sq, inj, sub,
                   fw, vr, pg, es>>

(* join() returns once the previous thread has finished: the new thread is   *)
(* created and start_test returns true.                                      *)
StartTestJoined ==
    /\ tc.joining
    /\ tc.thread = "finished"
    /\ tc' = [tc EXCEPT !.joining = FALSE, !.mutex_ = "free", !.thread = "spawned",
                        !.returned = "true"]
    /\ UNCHANGED <<l0, l1, smvars, ovars, validation, ew, lc, sq, inj, sub,
                   fw, vr, pg, es>>

(* stop_test: stop_requested_ = true before the lock. *)
StopTestRequest ==
    /\ tc.stop = "idle"
    /\ ~tc.stop_requested_
    /\ tc' = [tc EXCEPT !.stop_requested_ = TRUE, !.stop = "locking"]
    /\ UNCHANGED <<l0, l1, smvars, ovars, validation, ew, lc, sq, inj, sub,
                   fw, vr, pg, es>>

(* stop_test under mutex_. *)
StopTestLocked ==
    /\ tc.stop = "locking"
    /\ tc.mutex_ = "free"
    /\ tc' = [tc EXCEPT !.stop = "idle",
                        !.state_ = IF @ \in TestRestartable THEN @ ELSE "STOPPING"]
    /\ UNCHANGED <<l0, l1, smvars, ovars, validation, ew, lc, sq, inj, sub,
                   fw, vr, pg, es>>

(* The positions of the test thread at which its next step locks mutex_. *)
TestThreadLocks ==
    {"spawned", "started", "c_drain", "c_wait", "c_inject", "c_stable",
     "f_drain", "f_wait", "stopping", "throwing"}

(* The next step of test_thread_func and run_single_cycle; throws: the wait  *)
(* for the empty bottle or for the stable weight times out.                  *)
test_thread_step(t, throws) ==
    CASE t.thread = "spawned" -> [t EXCEPT !.state_ = "DRAINING", !.thread = "started"]
      [] t.thread = "started" ->
            IF t.stop_requested_ THEN [t EXCEPT !.thread = "stopping"]
            ELSE IF t.left > 0
            THEN [t EXCEPT !.state_ = "DRAINING", !.thread = "c_drain", !.left = @ - 1]
            ELSE [t EXCEPT !.state_ = "DRAINING", !.thread = "f_drain"]
      [] t.thread = "c_drain" ->
            IF t.stop_requested_ THEN [t EXCEPT !.thread = "started"]
            ELSE [t EXCEPT !.state_ = "WAITING_EMPTY", !.thread = "c_wait"]
      [] t.thread = "c_wait" ->
            IF throws THEN [t EXCEPT !.thread = "throwing"]
            ELSE IF t.stop_requested_ THEN [t EXCEPT !.thread = "started"]
            ELSE [t EXCEPT !.state_ = "INJECTING", !.thread = "c_inject"]
      [] t.thread = "c_inject" ->
            IF t.stop_requested_ THEN [t EXCEPT !.thread = "started"]
            ELSE [t EXCEPT !.state_ = "WAITING_STABLE", !.thread = "c_stable"]
      [] t.thread = "c_stable" ->
            IF throws THEN [t EXCEPT !.thread = "throwing"]
            ELSE [t EXCEPT !.thread = "started"]
      [] t.thread = "f_drain" -> [t EXCEPT !.state_ = "WAITING_EMPTY", !.thread = "f_wait"]
      [] t.thread = "f_wait" -> [t EXCEPT !.state_ = "COMPLETE", !.thread = "ending"]
      [] t.thread = "stopping" -> [t EXCEPT !.state_ = "IDLE", !.thread = "finished"]
      [] t.thread = "throwing" -> [t EXCEPT !.state_ = "ERROR", !.thread = "finished"]
      [] t.thread = "ending" -> [t EXCEPT !.thread = "finished"]

TestThreadStep ==
    /\ tc.thread \notin {"none", "finished"}
    /\ tc.thread \in TestThreadLocks => tc.mutex_ = "free"
    /\ \E throws \in BOOLEAN : tc' = test_thread_step(tc, throws)
    /\ UNCHANGED <<l0, l1, smvars, ovars, validation, ew, lc, sq, inj, sub,
                   fw, vr, pg, es>>

NextTest ==
    \/ StartTest
    \/ StartTestJoined
    \/ StopTestRequest
    \/ StopTestLocked
    \/ TestThreadStep

SpecTest == Init /\ [][NextTest]_vars

----------------------------------------------------------------------------
(* Properties of the two machines and the guards.                            *)

L0CallOps == L0Methods \cup {"transition_to"}

(* C3: request_transition(target) returns success with target as the current *)
(* L1 state if and only if target is a legal successor of the L1 state it    *)
(* was called in; otherwise it returns failure and L1 is unchanged.          *)
C3_RequestIffLegalSuccessor ==
    last.op = "request_transition" =>
        IF can_transition_to(last.pre_l1, last.arg)
        THEN last.result = "ok" /\ l1 = last.arg
        ELSE last.result = "fail" /\ l1 = last.pre_l1

(* A legal request that changes the L0 mode has been made and has not returned. *)
C3_LegalRequestHangs ==
    /\ last.op = "request_transition"
    /\ can_transition_to(last.pre_l1, last.arg)
    /\ last.result = "hang"

C5_DrainThenRequestIdle ==
    s6 = "requested" =>
        (last.result = "ok" /\ l1 = "IDLE" /\ l0 = "INITIAL")

(* The scenario has reached the point where request_transition(IDLE) is due. *)
C5_Drained == s6 = "drained" /\ l1 = "DRAIN_RUNNING" /\ l0 = "DRAIN"

(* C6: when a direct caller has changed L0 to new_state, the observer sets   *)
(* L1 to the representative state of new_state exactly when the projection   *)
(* of L1 differs from new_state, and otherwise leaves L1 as it was.          *)
C6_ObserverSync ==
    last.op = "on_legacy_state_changed" =>
        IF to_legacy_state(last.pre_l1) # last.arg
        THEN l1 = from_legacy_state(last.arg)
        ELSE l1 = last.pre_l1

(* The observer has just overwritten an L1 state whose projection differed. *)
C6_Witness ==
    /\ last.op = "on_legacy_state_changed"
    /\ to_legacy_state(last.pre_l1) # last.arg
    /\ l1 = from_legacy_state(last.arg)
    /\ l1 # last.pre_l1

(* The observer has just run on an L1 state that is not a representative    *)
(* state and whose projection already matched.                              *)
C6_WitnessUnchanged ==
    /\ last.op = "on_legacy_state_changed"
    /\ to_legacy_state(last.pre_l1) = last.arg
    /\ last.pre_l1 # from_legacy_state(last.arg)
    /\ l1 = last.pre_l1

(* C7: a request_transition or a direct L0 call made while L1 is ERROR or    *)
(* EMERGENCY_STOP leaves L1 where it was or at IDLE.                         *)
C7_ErrorOnlyToIdle ==
    (/\ last.op \in L0CallOps \cup {"request_transition"}
     /\ last.pre_l1 \in {"ERROR", "EMERGENCY_STOP"})
        => l1 \in {last.pre_l1, "IDLE"}

(* L1 has been taken out of EMERGENCY_STOP by the observer. *)
C7_ObserverLeavesEmergencyStop ==
    /\ last.op \in L0CallOps
    /\ last.pre_l1 = "EMERGENCY_STOP"
    /\ l1 \notin {"EMERGENCY_STOP", "IDLE"}

(* C8: after the destructor of a guard with committed_ = false, the guarded  *)
(* machine (L0 for StateTransactionGuard, L1 for HardwareTransactionGuard)   *)
(* is in the guard's initial_state_.                                         *)
C8_UncommittedGuardRestores ==
    /\ (last.op = "guard0_destroy" /\ ~last.committed) => l0 = last.initial
    /\ (last.op = "guard1_destroy" /\ ~last.committed) => l1 = last.initial

(* An uncommitted L0 guard has been destroyed after the machine had moved    *)
(* away from the recorded state.                                             *)
C8_Witness ==
    /\ last.op = "guard0_destroy"
    /\ ~last.committed
    /\ last.changed
    /\ l0 = last.initial

----------------------------------------------------------------------------
(* Properties of the primitives and the orchestrator.                        *)

(* C1: whichever way a primitive (inject, drain, acquire, wash; service or   *)
(* executor class) returns - success, failure, cancellation, exception - the *)
(* L0 mode when it returns is the L0 mode it was entered in.                 *)
C1_PrimitiveRestoresL0 ==
    lastprim.kind \in PrimitiveKinds => lastprim.exit = lastprim.entry

(* WashExecutor::execute has returned on a stop request seen inside its loop. *)
C1_Witness ==
    /\ lastprim.variant = "executor"
    /\ lastprim.kind = "wash"
    /\ lastprim.how = "cancel"
    /\ lastprim.exit = lastprim.entry

(* C2: an executor thread whose thread function has returned - after         *)
(* completion, a stop request or an error - left L0 at INITIAL when it       *)
(* returned.                                                                 *)
C2_ThreadEndsInitial ==
    \A t \in Threads : thr[t].pc = "done" => thr[t].end_l0 = "INITIAL"

(* A thread has ended on the error path. *)
C2_Witness ==
    \E t \in Threads :
        /\ thr[t].pc = "done"
        /\ thr[t].err
        /\ state_ = "ERROR"
        /\ thr[t].end_l0 = "INITIAL"

(* C9: at most one executor thread is inside execute_step at any moment. *)
C9_AtMostOneExecutor ==
    Cardinality({t \in Threads : Executing(t)}) <= 1

(* A second executor thread exists while the first is still inside a step. *)
C9_Witness ==
    /\ ~crashed
    /\ Executing(1)
    /\ thr[2].pc # "none"

(* C10: while an executor thread walks a program, loaded_program_ is the     *)
(* program object it walks.                                                  *)
C10_ProgramImmutable ==
    \A t \in Threads : Walking(t) => loaded_program_.id = thr[t].prog

(* LoadProgram has been accepted in ABORTING while the thread is in a step. *)
C10_ReplacedWhileWalking ==
    \E t \in Threads :
        /\ Executing(t)
        /\ loaded_program_.id # 0
        /\ loaded_program_.id # thr[t].prog

----------------------------------------------------------------------------
(* Properties of stop and pause.                                             *)

(* C11: once StopExperiment has been accepted in RUNNING or PAUSED, the      *)
(* executor thread of that run eventually returns from its thread function,  *)
(* and the lifecycle does not stay ABORTING forever.                         *)
C11_StopTerminates ==
    /\ \A t \in Threads : (thr[t].stopped /\ ~crashed) ~> (thr[t].pc = "done" \/ crashed)
    /\ (state_ = "ABORTING" /\ ~crashed) ~> (state_ # "ABORTING" \/ crashed)

(* A stop has been accepted while the thread was about to block on pause_cv_ *)
(* and its notify_all came before the thread blocked.                        *)
C11_StoppedThreadAsleep ==
    \E t \in Threads :
        /\ ~crashed
        /\ thr[t].stopped /\ stop_requested_ /\ state_ = "ABORTING"
        /\ thr[t].wait = "blocked"

(* C13: an executor thread that waits in wait_if_paused is never left        *)
(* blocked for ever while the pause is cleared or a stop is requested.       *)
C13_PausedThreadContinues ==
    \A t \in Threads : []<>~(~crashed /\ thr[t].wait = "blocked" /\ CheckReturns)

(* The thread blocks on pause_cv_ after ResumeExperiment cleared the pause   *)
(* and notified.                                                             *)
C13_LostWakeup ==
    \E t \in Threads :
        /\ ~crashed
        /\ thr[t].wait = "blocked"
        /\ ~pause_requested_ /\ ~stop_requested_ /\ state_ = "RUNNING"

(* C12: with the stop flag set, the thread spends at most one feedback tick  *)
(* of 100 ms inside a primitive before it observes the stop.                 *)
C12_StopSeenWithinOneTick ==
    \A t \in Threads : InPrim(t) /\ stop_requested_ => thr[t].prim.late <= FeedbackTicks

(* A whole poll interval of wait_for_empty_bottle has passed under a stop    *)
(* request and the thread is still inside it.                                *)
C12_DeafInEmptyWait ==
    \E t \in Threads :
        /\ InPrim(t) /\ stop_requested_
        /\ InEmptyWait(t)
        /\ thr[t].prim.late = EmptyPollTicks

(* C14: no STEP_COMPLETED event is emitted while state_ is EXP_PAUSED.       *)
C14_NoStepCompletedWhilePaused ==
    \A t \in Threads : thr[t].ev = "STEP_COMPLETED" => ~thr[t].ev_paused

(* A step has run to its end after PauseExperiment and before any resume.    *)
C14_StepCompletedInPause ==
    \E t \in Threads :
        /\ thr[t].ev = "STEP_COMPLETED" /\ thr[t].ev_paused
        /\ state_ = "PAUSED" /\ pause_requested_ /\ ~stop_requested_

(* C15 as stated: a run in which the stop was accepted ends in ABORTED,      *)
(* emits no EXPERIMENT_COMPLETED, and the next StopExperiment takes ABORTED  *)
(* to IDLE.                                                                  *)
C15_StoppedRunEndsAborted ==
    /\ [](\A t \in Threads :
            thr[t].stopped /\ thr[t].end_state # "-" =>
                thr[t].end_state = "ABORTED" /\ thr[t].ev # "EXPERIMENT_COMPLETED")
    /\ [][StopExperiment /\ state_ = "ABORTED" => state_' = "IDLE"]_vars

(* C15, amended: a run in which the stop was accepted ends in ABORTED, or in *)
(* ERROR when one of its steps threw; it never ends in COMPLETED and emits   *)
(* no EXPERIMENT_COMPLETED; the next StopExperiment takes ABORTED to IDLE.   *)
C15_StoppedRunEndsAbortedOrError ==
    /\ [](\A t \in Threads :
            thr[t].stopped /\ thr[t].end_state # "-" =>
                /\ thr[t].end_state = (IF thr[t].err THEN "ERROR" ELSE "ABORTED")
                /\ thr[t].ev # "EXPERIMENT_COMPLETED")
    /\ [][StopExperiment /\ state_ = "ABORTED" => state_' = "IDLE"]_vars

(* A stopped run has ended in ABORTED and the follow-up stop has unloaded    *)
(* the program.                                                              *)
C15_Witness ==
    \E t \in Threads :
        /\ thr[t].stopped /\ thr[t].end_state = "ABORTED" /\ thr[t].pc = "done"
        /\ state_ = "IDLE" /\ loaded_program_ = NullProgram

(* The lifecycle changes named by the state machine of the orchestrator. *)
LifecycleMachine ==
    {<<"IDLE", "LOADED">>, <<"LOADED", "RUNNING">>,
     <<"RUNNING", "PAUSED">>, <<"PAUSED", "RUNNING">>,
     <<"RUNNING", "ABORTING">>, <<"PAUSED", "ABORTING">>,
     <<"RUNNING", "COMPLETED">>, <<"RUNNING", "ERROR">>,
     <<"PAUSED", "COMPLETED">>, <<"PAUSED", "ERROR">>,
     <<"ABORTING", "ABORTED">>, <<"ABORTING", "ERROR">>,
     <<"LOADED", "IDLE">>, <<"COMPLETED", "IDLE">>,
     <<"ERROR", "IDLE">>, <<"ABORTED", "IDLE">>}

(* C16: every change of state_ is one of the changes of the lifecycle        *)
(* machine.                                                                  *)
C16_LifecycleFollowsMachine ==
    [][state_' # state_ => <<state_, state_'>> \in LifecycleMachine]_vars

(* LoadProgram has been accepted in ABORTING: the lifecycle is LOADED while  *)
(* the stopped executor thread is still running.                             *)
C16_LoadedWhileAborting ==
    \E t \in Threads :
        /\ ~crashed /\ state_ = "LOADED"
        /\ thr[t].stopped /\ thr[t].pc \notin {"none", "done", "restore"}

(* C17: whenever state_ is EXP_IDLE, loaded_program_ is null.                *)
C17_IdleHoldsNoProgram ==
    state_ = "IDLE" => loaded_program_ = NullProgram

(* A LoadProgram that failed validation has put a loaded orchestrator back   *)
(* to IDLE with its program still in place.                                  *)
C17_IdleWithProgram ==
    state_ = "IDLE" /\ loaded_program_ # NullProgram /\ \A t \in Threads : thr[t].pc = "none"

----------------------------------------------------------------------------
(* Properties of the actuator side of L0.                                    *)

(* The fields of PeripheralState in the order of their declaration, and in   *)
(* the order in which apply_peripheral_state looks at them.                  *)
DeclarationOrder ==
    <<"valve_waste", "valve_pinch", "valve_air", "valve_outlet",
      "air_pump_pwm", "cleaning_pump", "pumps", "heater_chamber">>

EmissionOrder ==
    <<"valve_outlet", "valve_pinch", "valve_waste", "valve_air",
      "air_pump_pwm", "cleaning_pump", "pumps", "heater_chamber">>

(* The commands that carry one changed field from prior to next: one SET_PIN *)
(* for a valve or a PWM output, the pinch valve together with its two fans,  *)
(* the soft start for a rising cleaning pump, one MANUAL_STEPPER per pump    *)
(* to stop, and one heater command.                                          *)
FieldCommands(f, prior, next) ==
    CASE f = "valve_pinch" ->
            <<SetPin("valve_pinch", next.valve_pinch),
              SetPin("inject_fan", next.valve_pinch),
              SetPin("inject_fan_2", next.valve_pinch)>>
      [] f = "cleaning_pump" -> CleaningPumpCommands(prior.cleaning_pump, next.cleaning_pump)
      [] f = "pumps" -> PumpStops(prior.pumps \ next.pumps)
      [] f = "heater_chamber" -> <<<<"SET_HEATER_TEMPERATURE", next.heater_chamber>>>>
      [] OTHER -> <<SetPin(f, next[f])>>

(* The field-wise diff from prior to next, fields taken in the given order. *)
DiffCommands(order, prior, next) ==
    LET d[i \in 0..Len(order)] ==
            IF i = 0 THEN <<>>
            ELSE d[i - 1] \o (IF prior[order[i]] # next[order[i]]
                              THEN FieldCommands(order[i], prior, next) ELSE <<>>)
    IN  d[Len(order)]

(* What a transition is to send: the automatic stop when a pump was running, *)
(* then the diff from the vector with the pumps stopped.                     *)
ExpectedCommands(order) ==
    IF ~sent.changed THEN <<>>
    ELSE (IF sent.prior.pumps # {} THEN <<AsyncStop>> ELSE <<>>)
         \o DiffCommands(order, [sent.prior EXCEPT !.pumps = {}], sent.next)

(* C18 as stated: the commands of an L0 transition are the diff from the     *)
(* prior vector to the new one in the declaration order of the fields,       *)
(* after the automatic pump stop.                                            *)
C18_DiffInDeclarationOrder == sent.cmds = ExpectedCommands(DeclarationOrder)

(* What the transitions do send: the same diff with the fields taken in the *)
(* order valve_outlet, valve_pinch, valve_waste, valve_air, air_pump_pwm,    *)
(* cleaning_pump, after the automatic pump stop; and the new vector is that  *)
(* of the target mode.                                                       *)
DiffInEmissionOrder ==
    /\ sent.cmds = ExpectedCommands(EmissionOrder)
    /\ sent.changed => sent.next = STATE_DEFINITIONS(l0)

(* A transition from INITIAL to DRAIN has closed the outlet valve before it  *)
(* opened the waste valve, which is declared first.                          *)
C18_OutletBeforeWaste ==
    /\ sent.changed /\ l0 = "DRAIN"
    /\ sent.prior = STATE_DEFINITIONS("INITIAL")
    /\ sent.cmds = <<SetPin("valve_outlet", 1), SetPin("valve_waste", 1),
                     SetPin("air_pump_pwm", 10)>>

(* C19: once no transition_to call is under way, the peripheral vector is    *)
(* the one of the current mode.                                              *)
C19_ModeAndVectorAgree ==
    (\A c \in Callers : tcall[c].pc = "idle") =>
        current_peripheral_state_ = STATE_DEFINITIONS(l0)

(* Two calls have interleaved and returned: the mode is that of one, the     *)
(* vector that of the other.                                                 *)
C19_ModeAndVectorDiffer ==
    /\ \A c \in Callers : tcall[c].pc = "idle"
    /\ current_peripheral_state_ # STATE_DEFINITIONS(l0)

----------------------------------------------------------------------------
(* Properties of the wash loop.                                              *)

----------------------------------------------------------------------------
(* Properties of the validator.                                               *)

RECURSIVE Repeat(_, _)
Repeat(steps, count) == IF count <= 0 THEN <<>> ELSE steps \o Repeat(steps, count - 1)

(* The program with every loop replaced by count copies of its body. *)
RECURSIVE Unroll(_)
Unroll(steps) ==
    IF steps = <<>> THEN <<>>
    ELSE (IF Head(steps).action = "loop"
          THEN Repeat(Unroll(Head(steps).steps), Head(steps).count)
          ELSE <<Head(steps)>>) \o Unroll(Tail(steps))

(* The validated program walked one step at a time, loops unrolled. *)
UnrolledWalk == validate_steps(ValidatorReset, validation.liquids, Unroll(validation.program))

(* C21: if the validator reports a program valid, then walking the same      *)
(* program step by step with loops fully unrolled never takes the simulated  *)
(* liquid level above max_fill or capacity and never requires more of any    *)
(* liquid than is available.                                                  *)
C21_ValidImpliesUnrolledSafe ==
    (validation.called /\ validation.valid) =>
        /\ UnrolledWalk.peak_liquid_level_ <= validation.max_fill_ml
        /\ UnrolledWalk.peak_liquid_level_ <= validation.bottle_capacity_ml
        /\ \A i \in 1..Len(validation.liquids) :
              UnrolledWalk.pump_totals_[validation.liquids[i].pump_index]
                  <= validation.liquids[i].available_ml

(* A program reported valid whose unrolled walk passes max_fill. *)
C21_ValidButOverflows ==
    /\ validation.called
    /\ validation.valid
    /\ UnrolledWalk.peak_liquid_level_ > validation.max_fill_ml

----------------------------------------------------------------------------
(* Properties of the load cell driver.                                        *)

(* C22: wait_for_empty_bottle changes the dynamic empty-bottle baseline if   *)
(* and only if it returns success, and then the stored baseline equals the   *)
(* empty_weight it returns; on timeout the baseline is left as it was.       *)
C22_BaselineSetIffSuccess ==
    ew.pc = "returned" =>
        IF ew.success
        THEN ew.dynamic_empty_weight_ = Some(ew.empty_weight)
        ELSE ew.dynamic_empty_weight_ = ew.before

(* A wait that succeeded over an earlier baseline, with another value. *)
C22_Witness ==
    /\ ew.pc = "returned"
    /\ ew.success
    /\ ew.before.has_value
    /\ ew.before # ew.dynamic_empty_weight_

(* A wait that timed out and left an earlier baseline in place. *)
C22_TimeoutWitness ==
    /\ ew.pc = "returned"
    /\ ~ew.success
    /\ ew.before.has_value

(* C23: when wait_for_empty_bottle succeeds with stability_window > 0, the   *)
(* filtered weights sampled over the final stability window have a spread    *)
(* (maximum minus minimum) below 0.5 g.                                       *)
C23_WindowSpreadBelowHalfGram ==
    (ew.pc = "returned" /\ ew.success /\ ew.stability_window_sec > 0) =>
        ew.window_max - ew.window_min < 5

(* A success whose final window holds 0.0 g and 0.8 g around a first sample  *)
(* of 0.4 g.                                                                  *)
C23_WideWindow ==
    /\ ew.pc = "returned"
    /\ ew.success
    /\ ew.stability_window_sec > 0
    /\ ew.window_max - ew.window_min >= 5

(* C24: the drain-complete callback fires at most once per stability         *)
(* episode: after it has fired it does not fire again until stability has    *)
(* been broken and re-established.                                            *)
C24_OneFirePerEpisode == lc.fires <= 1

(* The callback has fired and a later sample of the same episode, taken      *)
(* after the configured duration, has been processed.                        *)
C24_Witness ==
    /\ lc.fires = 1
    /\ lc.later = 1
    /\ lc.was_stable_
    /\ lc.stable_duration >= DrainStableDuration

(* The steps of the wizard in order, and cancel from a step in progress. *)
WizardMachine ==
    {<<"IDLE", "ZERO_POINT">>, <<"ZERO_POINT", "REFERENCE_WEIGHT">>,
     <<"REFERENCE_WEIGHT", "VERIFY">>, <<"VERIFY", "COMPLETE">>, <<"COMPLETE", "IDLE">>}

WizardCancel ==
    {<<step, "IDLE">> : step \in {"ZERO_POINT", "REFERENCE_WEIGHT", "VERIFY"}}

(* C25: the calibration wizard step changes only along IDLE to ZERO_POINT to *)
(* REFERENCE_WEIGHT to VERIFY to COMPLETE to IDLE, or by cancel from a       *)
(* non-terminal step to IDLE; no call made in any other step skips, repeats  *)
(* or restarts a step.                                                        *)
C25_WizardFollowsMachine ==
    LET walk == <<lc.from>> \o lc.path
    IN  \A i \in 1..Len(lc.path) :
            \/ <<walk[i], walk[i + 1]>> \in WizardMachine
            \/ lc.call = "cancel_calibration" /\ <<walk[i], walk[i + 1]>> \in WizardCancel

(* start_calibration called in VERIFY has put the wizard back to ZERO_POINT. *)
C25_RestartFromVerify ==
    /\ lc.call = "start_calibration"
    /\ lc.from = "VERIFY"
    /\ lc.calibration_step_ = "ZERO_POINT"

----------------------------------------------------------------------------
(* Properties of the primitive executors.                                     *)

(* C26: when a primitive executor's precondition check fails, execute()      *)
(* returns a failure result without opening a transaction: no L0 or L1       *)
(* transition is requested and no actuator command is emitted.               *)
C26_FailedPreconditionOpensNothing ==
    [][(lastprim' # lastprim /\ lastprim'.how = "precondition") =>
          /\ lastprim'.variant = "executor"
          /\ lastprim'.exit = lastprim'.entry
          /\ UNCHANGED <<l0, l1, l1_mutex, g0, g1, thr,
                         current_peripheral_state_, sent>>]_vars

(* InjectExecutor::execute has returned on its precondition, called in DRAIN. *)
C26_Witness ==
    /\ lastprim.how = "precondition"
    /\ lastprim.variant = "executor"
    /\ lastprim.kind = "inject"
    /\ lastprim.entry = "DRAIN"
    /\ l0 = "DRAIN"

(* C27: on every exit of the inject primitive (success, timeout or           *)
(* cancellation) exactly one consumable-consumption event is emitted for     *)
(* each pump that was assigned a non-zero distance.                           *)
C27_OneRecordPerPump ==
    (inj.ran /\ inj.sink) =>
        \A pump \in 0..7 :
            Cardinality({i \in 1..Len(inj.consumption) : inj.consumption[i].pump = pump})
                = IF inj.params[pump] > 0 THEN 1 ELSE 0

(* An inject that drove a pump and ended within a second, with no record. *)
C27_ShortInjectUnrecorded ==
    /\ inj.ran
    /\ inj.sink
    /\ inj.inject_seconds = 0
    /\ \E pump \in 0..7 : inj.params[pump] > 0
    /\ inj.consumption = <<>>

(* C28: in the inject primitive each component's distance is assigned to the *)
(* pump whose index is bound to that component's liquid in the program's     *)
(* hardware envelope, for every pump index the envelope allows.              *)
C28_DistanceOnBoundPump ==
    inj.ran =>
        \A i \in 1..Len(inj.components) :
            LET liquid == find_liquid(inj.liquids, inj.components[i].liquid_id)
            IN  liquid # 0 =>
                    inj.params[inj.liquids[liquid].pump_index]
                        = volume_mm(5, inj.components[i].ratio)

(* execute_inject has run for a liquid bound to pump 0 or 7 and has given no *)
(* pump any distance.                                                         *)
C28_BoundPumpLeftOut ==
    /\ inj.ran
    /\ inj.variant = "service"
    /\ Len(inj.components) = 1
    /\ inj.liquids[find_liquid(inj.liquids, inj.components[1].liquid_id)].pump_index \in {0, 7}
    /\ inj.params = NoInjectionParams

----------------------------------------------------------------------------
(* Properties of the event subscriptions.                                     *)

(* C29: an event subscription stays active, draining the event queue, until  *)
(* its caller disconnects; it is not ended by experiment stop requests or by *)
(* the end of a run.                                                          *)
C29_SubscriptionEndsOnDisconnectOnly ==
    \A s \in Subscribers :
        sub.subscription[s].pc = "done" => sub.subscription[s].cancelled

(* A subscription whose caller is still connected has ended on               *)
(* stop_requested_.                                                           *)
C29_EndedByStop ==
    \E s \in Subscribers :
        /\ sub.subscription[s].pc = "done"
        /\ ~sub.subscription[s].cancelled
        /\ sub.subscription[s].ended_by = "stop_requested_"
        /\ stop_requested_

----------------------------------------------------------------------------
(* Properties of the actuator's send queue.                                   *)

(* C30: after a write failure on the actuator transport the in-flight        *)
(* message is removed from the send FIFO and never sent again, so that the   *)
(* commands submitted afterwards are still written in submission order: no   *)
(* failed message is left in send_queue_, and a queue that holds messages    *)
(* has a write outstanding.                                                   *)
C30_FailedMessageLeavesFifo ==
    /\ \A i \in 1..Len(sq.send_queue_) : sq.send_queue_[i] \notin sq.failed
    /\ sq.send_queue_ # <<>> => sq.writing

(* A write has failed, its message is still the front of send_queue_, a      *)
(* command submitted afterwards is queued behind it on a live connection,    *)
(* and nothing is being written.                                              *)
C30_QueueWedged ==
    /\ sq.connected_
    /\ ~sq.writing
    /\ sq.posted = <<>>
    /\ Len(sq.send_queue_) >= 2
    /\ Head(sq.send_queue_) \in sq.failed
    /\ \E i \in 2..Len(sq.send_queue_) : sq.send_queue_[i].gcode > 0

----------------------------------------------------------------------------
(* Properties of the firmware flag.                                           *)

(* The positions in the log of the messages of the given set. *)
Positions(log, set) == {i \in 1..Len(log) : log[i] \in set}

LastOf(positions) == CHOOSE i \in positions : \A j \in positions : j <= i

(* C31 as stated: at every moment firmware_ready is true if and only if the  *)
(* most recent printer.info response reported state "ready" and no           *)
(* notify_klippy_shutdown has been observed since that response.             *)
C31_ReadyIffLastInfoReady ==
    LET infos == Positions(fw.log, InfoStates)
    IN  fw.firmware_ready_ <=>
            /\ infos # {}
            /\ fw.log[LastOf(infos)] = "printer.info:ready"
            /\ \A j \in Positions(fw.log, {"notify_klippy_shutdown"}) : j < LastOf(infos)

(* C31: firmware_ready is what the most recent deciding message says: a      *)
(* printer.info response with a state (true iff the state is "ready"),       *)
(* notify_klippy_shutdown (false) or notify_klippy_ready (true); before the  *)
(* first of them it is true.                                                  *)
C31_ReadyFollowsLastDecidingMessage ==
    LET deciding == Positions(fw.log, InfoStates \cup {"notify_klippy_shutdown",
                                                        "notify_klippy_ready"})
    IN  fw.firmware_ready_ <=>
            \/ deciding = {}
            \/ fw.log[LastOf(deciding)] \in {"printer.info:ready", "notify_klippy_ready"}

(* A shutdown followed by notify_klippy_ready, with no printer.info response *)
(* after the shutdown: the flag is true again.                                *)
C31_ReadyAgainByNotification ==
    /\ Len(fw.log) >= 2
    /\ fw.log[Len(fw.log) - 1] = "notify_klippy_shutdown"
    /\ fw.log[Len(fw.log)] = "notify_klippy_ready"
    /\ fw.firmware_ready_

----------------------------------------------------------------------------
(* Properties of the L1 mutex.                                                *)

L1CallOps == {"request_transition", "force_transition", "emergency_stop",
              "recover_from_error"}

(* C32: every call of the L1 methods request_transition, force_transition,   *)
(* emergency_stop or recover_from_error returns: the calling thread never    *)
(* blocks on the L1 mutex it already holds when the L0 transition it makes   *)
(* runs the L1 observer.                                                      *)
C32_L1CallsReturn ==
    /\ last.op \in L1CallOps => last.result # "hang"
    /\ l1_mutex # "stuck"

(* A force_transition, emergency_stop or recover_from_error that changed the *)
(* L0 mode waits in the observer on the mutex its own thread holds.          *)
C32_CallerWaitsOnOwnMutex ==
    /\ last.op \in L1CallOps \ {"request_transition"}
    /\ last.result = "hang"
    /\ last.changed
    /\ l1_mutex = "stuck"

----------------------------------------------------------------------------
(* Properties of the projection of L1 on L0.                                  *)

(* C33: whenever no transition is in progress, the L0 mode is the projection *)
(* of the current L1 state, after any sequence of direct L0 transitions and  *)
(* L1 request / force transitions. A transition is in progress while a call  *)
(* has not returned.                                                          *)
C33_L0IsProjectionOfL1 ==
    (l1_mutex = "free" /\ last.result # "hang" /\ \A c \in Callers : calls[c] = "idle")
        => l0 = to_legacy_state(l1)

(* Every direct caller of transition_to has returned, the L1 mutex is free,  *)
(* and L1 is the representative of a mode L0 has already left: the observer  *)
(* of an overtaken call ran last.                                             *)
C33_StaleObserverRanLast ==
    /\ \A c \in Callers : calls[c] = "idle"
    /\ l1_mutex = "free"
    /\ last.op = "on_legacy_state_changed"
    /\ last.arg # l0
    /\ l1 = from_legacy_state(last.arg)
    /\ l0 # to_legacy_state(l1)

----------------------------------------------------------------------------
(* Properties of the executor thread object.                                  *)

(* C34: after one run has finished and been unloaded, loading and starting a *)
(* second program starts a new executor thread normally: the thread object   *)
(* of the previous run is joined or otherwise reclaimed before it is         *)
(* replaced, so the assignment in StartExperiment does not terminate the     *)
(* process.                                                                   *)
C34_SecondStartKeepsProcess ==
    ~(crashed /\ mutex_ = "start")

(* The first run has finished, its thread was never joined, and the          *)
(* assignment of the second thread to execution_thread_ has ended the        *)
(* process.                                                                   *)
C34_TerminatedReplacingFinishedThread ==
    /\ crashed
    /\ mutex_ = "start"
    /\ execution_thread_ = 1
    /\ thr[1].pc = "done"
    /\ thr[2].pc = "spawned"
    /\ state_ = "RUNNING"

----------------------------------------------------------------------------
(* Properties of the emergency stop.                                          *)

(* C35: after the EmergencyStop RPC has returned while an experiment is      *)
(* running, the executor thread of the experiment does not move L0 out of    *)
(* INITIAL, and so sends no further pump or valve command, until an explicit *)
(* recovery.                                                                  *)
C35_StoppedStaysInitial ==
    es.stopped => l0 = "INITIAL"

(* After EmergencyStop returned, with no recovery, the executor thread has   *)
(* gone on to a later step of the program and has moved L0 to the mode of    *)
(* that primitive.                                                            *)
C35_NextStepRunsAfterEmergencyStop ==
    \E t \in Threads :
        /\ es.stopped
        /\ ~crashed
        /\ ~stop_requested_
        /\ thr[t].pc = "in_step"
        /\ thr[t].ip > es.ip[t]
        /\ thr[t].prim.entry = "INITIAL"
        /\ l0 # "INITIAL"

----------------------------------------------------------------------------
(* Properties of the executors' precondition checks.                          *)

(* C36: on a fresh instrument (L0 INITIAL, L1 IDLE, L1 attached to the       *)
(* executors) the precondition checks of the drain executor and of the       *)
(* acquire executor pass for a well-formed drain or acquire step: no such    *)
(* step is turned away.                                                       *)
C36_FreshInstrumentPassesPreconditions ==
    ~ /\ lastprim.how = "precondition"
      /\ lastprim.kind \in {"drain", "acquire"}
      /\ lastprim.step_ok
      /\ lastprim.entry = "INITIAL"
      /\ lastprim.entry_l1 = "IDLE"

(* A well-formed drain step was turned away on the fresh instrument, and     *)
(* DRAIN_RUNNING is not a successor of IDLE in the transition table.         *)
C36_DrainTurnedAwayWhenIdle ==
    /\ lastprim.how = "precondition"
    /\ lastprim.variant = "executor"
    /\ lastprim.kind = "drain"
    /\ lastprim.step_ok
    /\ lastprim.entry = "INITIAL"
    /\ lastprim.entry_l1 = "IDLE"
    /\ lastprim.exit = "INITIAL"
    /\ "DRAIN_RUNNING" \notin valid_transitions("IDLE")

----------------------------------------------------------------------------
(* Properties of the shared validator.                                        *)

(* C37: the result a ValidateProgram call returns depends only on the        *)
(* program passed to that call, also when a LoadProgram validation or        *)
(* another ValidateProgram call runs concurrently on the shared validator:   *)
(* it is the result of validating that program alone.                        *)
C37_ResultOfOwnProgram ==
    \A c \in RpcCalls :
        (vr.call[c].pc = "done" /\ vr.call[c].rpc = "ValidateProgram") =>
            LET alone == validate(vr.call[c].program, vr.call[c].hw)
            IN  /\ vr.call[c].result.valid = alone.valid
                /\ vr.call[c].result.errors = alone.errors
                /\ vr.call[c].result.peak_liquid_level_ml = alone.peak_liquid_level_ml

(* A ValidateProgram call has returned "invalid" for a program that is valid *)
(* on its own, while the other call, which overlapped with it, is still in   *)
(* progress.                                                                  *)
C37_ValidProgramRejected ==
    \E c, d \in RpcCalls :
        /\ c # d
        /\ vr.call[c].pc = "done"
        /\ vr.call[c].rpc = "ValidateProgram"
        /\ vr.call[d].pc = "steps"
        /\ validate(vr.call[c].program, vr.call[c].hw).valid
        /\ ~vr.call[c].result.valid

(* The events written to subscription s. *)
ReceivedIds(s) ==
    {sub.subscription[s].received[i].id : i \in 1..Len(sub.subscription[s].received)}

(* The subscriptions whose caller is connected and whose loop is running. *)
Connected == {s \in Subscribers : sub.subscription[s].pc = "loop"
                                  /\ ~sub.subscription[s].cancelled}

(* C38: every event emitted while a subscriber is connected is delivered to  *)
(* that subscriber; with two subscribers connected, each of them receives    *)
(* every event. Once the queue has been drained, a connected subscriber has  *)
(* been written every event emitted since it subscribed.                     *)
C38_EverySubscriberReceivesEveryEvent ==
    sub.event_queue_ = <<>> =>
        \A s \in Connected :
            \A id \in (sub.subscription[s].since + 1)..sub.emitted : id \in ReceivedIds(s)

(* Two subscribers are connected, the queue is empty, and an event emitted   *)
(* after both had subscribed has been written to one of them only.           *)
C38_EventWentToOneSubscriber ==
    \E s, u \in Connected, id \in 1..sub.emitted :
        /\ s # u
        /\ sub.event_queue_ = <<>>
        /\ sub.subscription[s].since < id
        /\ sub.subscription[u].since < id
        /\ id \in ReceivedIds(s)
        /\ id \notin ReceivedIds(u)

----------------------------------------------------------------------------
(* Properties of the status snapshot.                                         *)

(* C39: the progress_percent reported in every experiment status snapshot    *)
(* lies between 0 and 100, including while the executor is inside a loop     *)
(* body.                                                                      *)
C39_ProgressWithinPercent ==
    pg.progress_percent # -1 => pg.progress_percent \in 0..100

(* A snapshot taken inside a loop body whose steps outnumber the steps of    *)
(* the program reports more than 100.                                        *)
C39_ProgressAboveHundredInLoop ==
    /\ pg.pc = "body"
    /\ pg.loop_iteration_ >= 1
    /\ pg.program[pg.i + 1].body > Len(pg.program)
    /\ pg.progress_percent = fill_status_response(pg)
    /\ pg.progress_percent > 100

----------------------------------------------------------------------------
(* Properties of the test controller.                                         *)

(* C40: TestController::start_test never deadlocks: a start_test that joins  *)
(* the previous test thread is not waiting for that thread while it holds    *)
(* the mutex the thread needs in order to proceed.                           *)
C40_StartTestNeverDeadlocks ==
    ~(tc.joining /\ tc.mutex_ = "start_test" /\ tc.thread \in TestThreadLocks)

(* A second start_test has found state_ still restartable, because the       *)
(* thread of the first has not yet taken mutex_ to set DRAINING; it holds    *)
(* mutex_ and waits in join() for that thread.                               *)
C40_JoinOfThreadThatWaitsForMutex ==
    /\ tc.joining
    /\ tc.mutex_ = "start_test"
    /\ tc.thread = "spawned"
    /\ tc.state_ \in TestRestartable
    /\ tc.starts >= 2

====
